---- MODULE Spec2Model ----
(***************************************************************************)
(* A model of the block cache of QtVirtualTableWidget                      *)
(* (src/VirtualTable/VirtualTableModel.cpp) together with the worker pool  *)
(* and the event queue that carry its asynchronous block loads.            *)
(*                                                                         *)
(* Everything but the load function runs on the GUI thread, so every       *)
(* public entry point and every `finished' handler is one atomic action.   *)
(* The load function of a task runs on a pool thread: it reads             *)
(* m_dataSource when it runs, not when the task was issued.                *)
(***************************************************************************)
EXTENDS Integers, Sequences, FiniteSets, TLC

\* ------------------------------------------------------------------------
\* Bounds of the model
\* ------------------------------------------------------------------------

\* Number of calls of public methods in a behaviour of Spec.
MaxCalls == 3

\* Number of calls of public methods in a behaviour of SpecEvict.
MaxEvictCalls == 4

\* Loads that may be unfinished or undelivered when a public method is called
\* in a behaviour of SpecEvict.
MaxBusy == 0

\* Threads of the global thread pool (QThread::idealThreadCount()) in a
\* behaviour of Spec; the pool of SpecEvict has one thread.
PoolThreads == 2

\* Largest value of the millisecond clock.
MaxTime == 2

\* Rows and columns of the two data sources.
RowsA == 2500
RowsB == 1500
RowsC == 13000
ColsA == 2
ColsB == 1
ColsC == 1

\* Rows and columns of the small source D; source E has no row.
RowsD == 7
ColsD == 1

\* Calls of public methods in a behaviour of SpecSpan.
MaxSpanCalls == 3
MaxPrefetchCalls == 4
MaxCleanCalls == 4
MaxPolicyCalls == 4
MaxCellCalls == 4

\* CsvDataSource: the length of the files enumerated, the calls made on a
\* reader, and the maxCacheSize given to the constructor.
MaxFileLen == 4
MaxCsvCalls == 2
MaxOffsetCalls == 2
MaxLineLen == 6

\* VirtualTableView: the calls made on the view and its model.
MaxViewCalls == 5

\* Mapping windows: the calls made on a reader, and the bytes of the last
\* row of the files.
MaxWindowCalls == 1
LastRowLen == 5

\* Observed model: the calls made on the model.
MaxObserverCalls == 4
CacheSizeArg == 1

\* ------------------------------------------------------------------------
\* Program constants
\* ------------------------------------------------------------------------

DefaultBlockSize == 1000
DefaultVisibleRows == 50
CleanupThreshold == 10
MaxExtraBlocks == 10

\* VirtualTableView: the rows kept loaded above and below the viewport.
DefaultBufferSize == 50

\* CsvDataSource: the size of a mapped block of the file (1 MB), the size
\* tried when that mapping fails (64 KB), and the cache size cacheRow sets.
MapBlockSize == 1048576
SmallMapBlockSize == 65536

\* The bytes one evaluation step of a scan for the end of a line examines.
ScanChunk == 1024
HardMaxCacheSize == 50000

NullSource == "null"
Sources == {"A", "B", "C", "D", "E", "F"}

Policies == {"Conservative", "Balanced", "Aggressive"}

\* ------------------------------------------------------------------------
\* Arithmetic of the C++ code
\* ------------------------------------------------------------------------

Max(a, b) == IF a >= b THEN a ELSE b
Min(a, b) == IF a <= b THEN a ELSE b

\* int / int of C++: truncation toward zero (b > 0).
CDiv(a, b) == IF a >= 0 THEN a \div b ELSE -((-a) \div b)

\* int % int of C++: the sign of the dividend (b > 0).
CMod(a, b) == a - b * CDiv(a, b)

\* ------------------------------------------------------------------------
\* The data source (DataSource interface)
\* ------------------------------------------------------------------------

rowCount(src) ==
    CASE src = "A" -> RowsA
      [] src = "B" -> RowsB
      [] src = "C" -> RowsC
      [] src = "D" -> RowsD
      [] src = "E" -> 0
      [] src = "F" -> 1
      [] OTHER -> 0

columnCount(src) ==
    CASE src = "A" -> ColsA
      [] src = "B" -> ColsB
      [] src = "C" -> ColsC
      [] src = "D" -> ColsD
      [] src = "E" -> 1
      [] src = "F" -> 1
      [] OTHER -> 0

\* The values data() can return.  A cell of a source is identified by the
\* source, the row and the column it was read from.
Cell(src, row, col) == [kind |-> "cell", src |-> src, row |-> row, col |-> col]
Placeholder == [kind |-> "placeholder", src |-> NullSource, row |-> 0, col |-> 0]
EmptyValue == [kind |-> "empty", src |-> NullSource, row |-> 0, col |-> 0]

\* loadData(startRow, count): the rows startRow .. min(startRow + count,
\* rowCount) - 1, in order.  The list is kept as (src, start, n): element i
\* of the list is row start + i of src, with columnCount(src) cells.
loadData(src, startRow, count) ==
    LET endRow == Min(startRow + count, rowCount(src))
    IN  [src |-> src, start |-> startRow, n |-> Max(0, endRow - startRow)]

EmptyList == [src |-> NullSource, start |-> 0, n |-> 0]

\* data.size() of a row list
ListSize(d) == d.n

\* data[i][col] of a row list, for 0 <= i < size and 0 <= col < row size
ListCell(d, i, col) == Cell(d.src, d.start + i, col)

\* data[i].size() of a row list
ListRowSize(d) == columnCount(d.src)

\* ------------------------------------------------------------------------
\* State
\* ------------------------------------------------------------------------

VARIABLES
    m_dataSource,           \* the active source, or NullSource
    m_blockSize,
    m_preloadPolicy,
    m_dataBlocks,           \* block index -> DataBlock
    m_loadTasks,            \* block index -> id of the watcher stored for it
    m_loadingStatus,
    m_visibleStartRow,
    m_visibleEndRow,
    m_preloadBlocksAhead,
    m_preloadBlocksBehind,
    pool,                   \* tasks submitted to the thread pool and not yet
                            \* finished, in submission order
    events,                 \* finished tasks whose `finished' signal is not
                            \* yet delivered, in the order they finished
    nextId,                 \* id of the next watcher
    calls,                  \* number of calls of public methods so far
    now,                    \* QDateTime::currentMSecsSinceEpoch()
    crashed,                \* the process dereferenced a null source
    statusSignal,           \* value of the last loadingStatusChanged signal
    lastOp,                 \* the step taken last, its arguments and result
    settling,               \* a visible range was set and no call came since
    csv,                    \* the CsvDataSource object: its file and members
    csvOp,                  \* the last call of the CsvDataSource, its
                            \* arguments and result
    view,                   \* the VirtualTableView: its members and the span
                            \* it passed to setVisibleRange last
    m_dataMutex             \* "locked" once the GUI thread waits for the lock
                            \* it holds itself, "unlocked" between handlers

vars == << m_dataSource, m_blockSize, m_preloadPolicy, m_dataBlocks, m_loadTasks,
           m_loadingStatus, m_visibleStartRow, m_visibleEndRow, m_preloadBlocksAhead,
           m_preloadBlocksBehind, pool, events, nextId, calls, now, crashed,
           statusSignal, lastOp, settling, csv, csvOp, view,
           m_dataMutex >>

\* The fields of the model object a handler reads and writes, as one record.
Self ==
    [ ds |-> m_dataSource, bs |-> m_blockSize, policy |-> m_preloadPolicy,
      blocks |-> m_dataBlocks, loadTasks |-> m_loadTasks,
      status |-> m_loadingStatus, vs |-> m_visibleStartRow,
      ve |-> m_visibleEndRow,
      ahead |-> m_preloadBlocksAhead, behind |-> m_preloadBlocksBehind,
      pool |-> pool, nextId |-> nextId, now |-> now, sig |-> statusSignal ]

\* The handler returns with the object in state s.
Commit(s) ==
    /\ m_dataSource' = s.ds
    /\ m_blockSize' = s.bs
    /\ m_preloadPolicy' = s.policy
    /\ m_dataBlocks' = s.blocks
    /\ m_loadTasks' = s.loadTasks
    /\ m_loadingStatus' = s.status
    /\ m_visibleStartRow' = s.vs
    /\ m_visibleEndRow' = s.ve
    /\ m_preloadBlocksAhead' = s.ahead
    /\ m_preloadBlocksBehind' = s.behind
    /\ pool' = s.pool
    /\ nextId' = s.nextId
    /\ statusSignal' = s.sig

\* What a step leaves behind for the properties: the operation, its two
\* arguments, the value it returned, the blocks its cleanup removed and the
\* row range of the dataChanged signal it emitted.
Op(op, a, b, ret, evicted, first, last) ==
    [ op |-> op, a |-> a, b |-> b, ret |-> ret, evicted |-> evicted,
      first |-> first, last |-> last ]

\* f with key k bound to v
Put(f, k, v) == [x \in (DOMAIN f) \cup {k} |-> IF x = k THEN v ELSE f[x]]

\* f without the keys of K
Drop(f, K) == [x \in (DOMAIN f) \ K |-> f[x]]

EmptyMap == [x \in {} |-> 0]

\* ------------------------------------------------------------------------
\* Private methods of VirtualTableModel
\* ------------------------------------------------------------------------

getBlockIndex(s, row) == CDiv(row, s.bs)

\* QFutureWatcher::isRunning(): the future is Running from the moment it is
\* submitted until its function has returned.
isRunning(s, id) == \E i \in 1..Len(s.pool) : s.pool[i].id = id

\* it != m_dataBlocks.end() && it.value().isValid
isValidBlock(s, b) == b \in DOMAIN s.blocks /\ s.blocks[b].isValid

\* m_loadTasks.contains(b) && m_loadTasks[b] && m_loadTasks[b]->isRunning()
isLoading(s, b) == b \in DOMAIN s.loadTasks /\ isRunning(s, s.loadTasks[b])

setLoadingStatus(s, status) ==
    IF s.status # status
    THEN [s EXCEPT !.status = status, !.sig = status]
    ELSE s

updatePreloadBlockCounts(s) ==
    CASE s.policy = "Conservative" -> [s EXCEPT !.ahead = 1, !.behind = 0]
      [] s.policy = "Balanced"     -> [s EXCEPT !.ahead = 2, !.behind = 1]
      [] s.policy = "Aggressive"   -> [s EXCEPT !.ahead = 5, !.behind = 2]

\* calculatePreloadRange with the two counts exchanged.
calculatePreloadRange_swapped(s, centerBlockIndex) ==
    IF s.ds = NullSource
    THEN << 0, 0 >>
    ELSE LET totalBlocks == CDiv(rowCount(s.ds) + s.bs - 1, s.bs)
             startBlock == Max(0, centerBlockIndex - s.ahead)
             endBlock == Min(totalBlocks - 1, centerBlockIndex + s.behind)
         IN  << startBlock, endBlock >>

calculatePreloadRange(s, centerBlockIndex) ==
    IF s.ds = NullSource
    THEN << 0, 0 >>
    ELSE LET totalBlocks == CDiv(rowCount(s.ds) + s.bs - 1, s.bs)
             startBlock == Max(0, centerBlockIndex - s.behind)
             endBlock == Min(totalBlocks - 1, centerBlockIndex + s.ahead)
         IN  << startBlock, endBlock >>

\* The block getBlock(blockIndex) returns a reference to; it is created
\* invalid when absent.
getBlock(s, blockIndex) ==
    IF blockIndex \in DOMAIN s.blocks
    THEN s
    ELSE [s EXCEPT !.blocks =
            Put(@, blockIndex,
                [ startRow |-> blockIndex * s.bs, count |-> s.bs,
                  data |-> EmptyList, isValid |-> FALSE,
                  lastAccessTime |-> 0 ])]

\* loadBlock asking for a whole block whatever the number of rows left.
loadBlock_full(s, blockIndex) ==
    IF s.ds = NullSource THEN s
    ELSE IF isValidBlock(s, blockIndex)
    THEN [s EXCEPT !.blocks[blockIndex].lastAccessTime = s.now]
    ELSE IF isLoading(s, blockIndex) THEN s
    ELSE LET startRow == blockIndex * s.bs
             count == s.bs
         IN  IF startRow >= rowCount(s.ds) \/ count <= 0
             THEN s
             ELSE [s EXCEPT
                     !.pool = Append(@, [ id |-> s.nextId,
                                          blockIndex |-> blockIndex,
                                          startRow |-> startRow,
                                          count |-> count,
                                          issuedFor |-> s.ds ]),
                     !.loadTasks = Put(@, blockIndex, s.nextId),
                     !.nextId = @ + 1]

loadBlock(s, blockIndex) ==
    IF s.ds = NullSource THEN s
    ELSE IF isValidBlock(s, blockIndex)
    THEN [s EXCEPT !.blocks[blockIndex].lastAccessTime = s.now]
    ELSE IF isLoading(s, blockIndex) THEN s
    ELSE LET startRow == blockIndex * s.bs
             count == IF startRow + s.bs > rowCount(s.ds)
                      THEN rowCount(s.ds) - startRow
                      ELSE s.bs
         IN  IF startRow >= rowCount(s.ds) \/ count <= 0
             THEN s
             ELSE [s EXCEPT
                     !.pool = Append(@, [ id |-> s.nextId,
                                          blockIndex |-> blockIndex,
                                          startRow |-> startRow,
                                          count |-> count,
                                          issuedFor |-> s.ds ]),
                     !.loadTasks = Put(@, blockIndex, s.nextId),
                     !.nextId = @ + 1]

\* for (blockIndex = b; blockIndex <= endBlock; ++blockIndex) loadBlock(...)
RECURSIVE loadVisibleBlocks(_, _, _)
loadVisibleBlocks(s, b, endBlock) ==
    IF b > endBlock THEN s
    ELSE loadVisibleBlocks(loadBlock(s, b), b + 1, endBlock)

\* The loop of preloadBlocks: a block that is valid or loading is skipped.
RECURSIVE loadPreloadBlocks(_, _, _)
loadPreloadBlocks(s, b, endBlock) ==
    IF b > endBlock THEN s
    ELSE LET shouldLoad == ~isValidBlock(s, b) /\ ~isLoading(s, b)
         IN  loadPreloadBlocks(IF shouldLoad THEN loadBlock(s, b) ELSE s,
                               b + 1, endBlock)

\* preloadBlocks with a loop that stops one block short of the end of the
\* prefetch range.
preloadBlocks_short(s, centerBlockIndex) ==
    IF s.ds = NullSource THEN s
    ELSE LET range == calculatePreloadRange(s, centerBlockIndex)
             s1 == IF range[1] <= range[2]
                   THEN setLoadingStatus(s, "LoadingPreload")
                   ELSE s
         IN  loadPreloadBlocks(s1, range[1], range[2] - 1)

preloadBlocks(s, centerBlockIndex) ==
    IF s.ds = NullSource THEN s
    ELSE LET range == calculatePreloadRange(s, centerBlockIndex)
             s1 == IF range[1] <= range[2]
                   THEN setLoadingStatus(s, "LoadingPreload")
                   ELSE s
         IN  loadPreloadBlocks(s1, range[1], range[2])

\* The first min(maxExtraBlocks, size) entries of a list that is not sorted.
mostRecent_unsorted(s, candidates) ==
    LET n == Min(MaxExtraBlocks, Cardinality(candidates))
    IN  {U \in SUBSET candidates : Cardinality(U) = n}

\* The sets of blocks the loop over the sorted list can keep: the first
\* min(maxExtraBlocks, size) entries of the candidates sorted by
\* lastAccessTime, descending.  std::sort leaves the order of entries with
\* equal times unspecified, so every order of such entries is possible.
mostRecent(s, candidates) ==
    LET n == Min(MaxExtraBlocks, Cardinality(candidates))
        t(x) == s.blocks[x].lastAccessTime
        newer(x) == Cardinality({y \in candidates : t(y) > t(x)})
        notOlder(x) == Cardinality({y \in candidates : t(y) >= t(x)})
        sure == {x \in candidates : notOlder(x) <= n}
        maybe == {x \in candidates : newer(x) < n} \ sure
    IN  {sure \cup T : T \in {U \in SUBSET maybe : Cardinality(U) = n - Cardinality(sure)}}

\* cleanupBlocks keeping the most recently used blocks only, the blocks of
\* the prefetch range not excepted.
cleanupBlocks_lru(s) ==
    IF s.ds = NullSource \/ Cardinality(DOMAIN s.blocks) <= CleanupThreshold
    THEN {s}
    ELSE { [s EXCEPT !.blocks = Drop(@, (DOMAIN s.blocks) \ K)] :
             K \in mostRecent(s, DOMAIN s.blocks) }

\* The states cleanupBlocks can leave.
cleanupBlocks(s) ==
    IF s.ds = NullSource \/ Cardinality(DOMAIN s.blocks) <= CleanupThreshold
    THEN {s}
    ELSE LET visibleStartBlock == getBlockIndex(s, s.vs)
             visibleEndBlock == getBlockIndex(s, s.ve)
             centerBlock == CDiv(visibleStartBlock + visibleEndBlock, 2)
             preloadRange == calculatePreloadRange(s, centerBlock)
             inRange == preloadRange[1] .. preloadRange[2]
             candidates == (DOMAIN s.blocks) \ inRange
         IN  { [s EXCEPT !.blocks = Drop(@, (DOMAIN s.blocks) \ (inRange \cup K))] :
                 K \in mostRecent(s, candidates) }

\* The visible blocks are all valid (the check that ends setVisibleRange and
\* the one in onBlockLoaded).
allVisibleLoaded(s, startBlock, endBlock) ==
    \A b \in startBlock .. endBlock : isValidBlock(s, b)

\* ------------------------------------------------------------------------
\* Public methods of VirtualTableModel (the state each leaves)
\* ------------------------------------------------------------------------

\* data() returning the placeholder for a block that is not valid without
\* asking for the block.
data_noLoad(s, row, col) ==
    IF s.ds = NullSource
    THEN [s |-> s, ret |-> EmptyValue]
    ELSE IF row < 0 \/ row >= rowCount(s.ds) \/ col < 0 \/ col >= columnCount(s.ds)
    THEN [s |-> s, ret |-> EmptyValue]
    ELSE LET blockIndex == getBlockIndex(s, row)
             rowInBlock == CMod(row, s.bs)
             valid == isValidBlock(s, blockIndex)
             s1 == IF valid
                   THEN [s EXCEPT !.blocks[blockIndex].lastAccessTime = s.now]
                   ELSE s
         IN  IF /\ valid
                /\ rowInBlock < ListSize(s1.blocks[blockIndex].data)
                /\ col < ListRowSize(s1.blocks[blockIndex].data)
             THEN [s |-> s1,
                   ret |-> ListCell(s1.blocks[blockIndex].data, rowInBlock, col)]
             ELSE [s |-> s1, ret |-> Placeholder]

\* data() without the upper bound on the column.
data_anyColumn(s, row, col) ==
    IF s.ds = NullSource
    THEN [s |-> s, ret |-> EmptyValue]
    ELSE IF row < 0 \/ row >= rowCount(s.ds) \/ col < 0
    THEN [s |-> s, ret |-> EmptyValue]
    ELSE LET blockIndex == getBlockIndex(s, row)
             rowInBlock == CMod(row, s.bs)
             valid == isValidBlock(s, blockIndex)
             s1 == IF valid
                   THEN [s EXCEPT !.blocks[blockIndex].lastAccessTime = s.now]
                   ELSE s
         IN  IF /\ valid
                /\ rowInBlock < ListSize(s1.blocks[blockIndex].data)
                /\ col < ListRowSize(s1.blocks[blockIndex].data)
             THEN [s |-> s1,
                   ret |-> ListCell(s1.blocks[blockIndex].data, rowInBlock, col)]
             ELSE [s |-> loadBlock(s1, blockIndex), ret |-> Placeholder]

\* data(index(row, col), Qt::DisplayRole): the state left and the value
\* returned.
data(s, row, col) ==
    IF s.ds = NullSource
    THEN [s |-> s, ret |-> EmptyValue]
    ELSE IF row < 0 \/ row >= rowCount(s.ds) \/ col < 0 \/ col >= columnCount(s.ds)
    THEN [s |-> s, ret |-> EmptyValue]
    ELSE LET blockIndex == getBlockIndex(s, row)
             rowInBlock == CMod(row, s.bs)
             valid == isValidBlock(s, blockIndex)
             s1 == IF valid
                   THEN [s EXCEPT !.blocks[blockIndex].lastAccessTime = s.now]
                   ELSE s
         IN  IF /\ valid
                /\ rowInBlock < ListSize(s1.blocks[blockIndex].data)
                /\ col < ListRowSize(s1.blocks[blockIndex].data)
             THEN [s |-> s1,
                   ret |-> ListCell(s1.blocks[blockIndex].data, rowInBlock, col)]
             ELSE [s |-> loadBlock(s1, blockIndex), ret |-> Placeholder]

setDataSource(s, source) ==
    [s EXCEPT !.ds = source, !.blocks = EmptyMap, !.loadTasks = EmptyMap,
              !.sig = "Idle"]

\* setBlockSize changing the block size and keeping the blocks and the
\* load tasks of the old block size.
setBlockSize_keep(s, blockSize) ==
    IF blockSize <= 0 THEN s
    ELSE IF blockSize # s.bs
    THEN [s EXCEPT !.bs = blockSize]
    ELSE s

setBlockSize(s, blockSize) ==
    IF blockSize <= 0 THEN s
    ELSE IF blockSize # s.bs
    THEN [s EXCEPT !.bs = blockSize, !.blocks = EmptyMap, !.loadTasks = EmptyMap]
    ELSE s

setPreloadPolicy(s, policy) ==
    IF policy # s.policy
    THEN LET s1 == updatePreloadBlockCounts([s EXCEPT !.policy = policy])
         IN  IF s1.vs # s1.ve
             THEN LET centerRow == CDiv(s1.vs + s1.ve, 2)
                  IN  preloadBlocks(s1, getBlockIndex(s1, centerRow))
             ELSE s1
    ELSE s

\* The state setVisibleRange has reached when it calls cleanupBlocks
\* (startRow and endRow are the clamped range, startRow <= endRow).
visibleRangeLoaded(s, startRow, endRow) ==
    LET s1 == [s EXCEPT !.vs = startRow, !.ve = endRow]
        startBlock == getBlockIndex(s1, startRow)
        endBlock == getBlockIndex(s1, endRow)
        s2 == IF startBlock <= endBlock
              THEN setLoadingStatus(s1, "LoadingVisible")
              ELSE s1
        s3 == loadVisibleBlocks(s2, startBlock, endBlock)
        centerBlock == CDiv(startBlock + endBlock, 2)
    IN  preloadBlocks(s3, centerBlock)

\* The states setVisibleRange(startRow, endRow) can leave.
setVisibleRange(s, startRow0, endRow0) ==
    IF s.ds = NullSource THEN {s}
    ELSE LET startRow == Max(0, startRow0)
             endRow == Min(rowCount(s.ds) - 1, endRow0)
         IN  IF startRow > endRow THEN {s}
             ELSE LET startBlock == CDiv(startRow, s.bs)
                      endBlock == CDiv(endRow, s.bs)
                  IN  { IF allVisibleLoaded(c, startBlock, endBlock)
                        THEN setLoadingStatus(c, "Idle")
                        ELSE c :
                          c \in cleanupBlocks(visibleRangeLoaded(s, startRow, endRow)) }

\* The states jumpToRow(rowIndex) can leave.
jumpToRow(s, rowIndex) ==
    IF s.ds = NullSource \/ rowIndex < 0 \/ rowIndex >= rowCount(s.ds)
    THEN {s}
    ELSE LET span == s.ve - s.vs + 1
             visibleRows == IF span <= 0 THEN DefaultVisibleRows ELSE span
             newStartRow == Max(0, rowIndex - CDiv(visibleRows, 2))
             newEndRow == Min(rowCount(s.ds) - 1, newStartRow + visibleRows - 1)
         IN  setVisibleRange(s, newStartRow, newEndRow)

\* m_scrollSpeed is assigned here and read nowhere: it is not kept.
setScrollSpeed(s, speed) ==
    IF speed > 5000
    THEN [s EXCEPT !.ahead = Max(1, CDiv(s.ahead, 2)),
                   !.behind = Max(0, CDiv(s.behind, 2))]
    ELSE IF speed < 500 /\ speed > 0
    THEN updatePreloadBlockCounts(s)
    ELSE s

\* onBlockLoaded(blockIndex, list): the state left and the row range of the
\* dataChanged signal (merged is FALSE when the handler returned at once).
onBlockLoaded(s, blockIndex, list) ==
    IF s.ds = NullSource
    THEN [s |-> s, merged |-> FALSE, first |-> 0, last |-> 0]
    ELSE LET s1 == getBlock(s, blockIndex)
             s2 == [s1 EXCEPT !.blocks[blockIndex].data = list,
                              !.blocks[blockIndex].isValid = TRUE,
                              !.blocks[blockIndex].lastAccessTime = s.now]
             startRow == blockIndex * s.bs
             endRow == Min(startRow + ListSize(list) - 1, rowCount(s.ds) - 1)
             visibleStartBlock == getBlockIndex(s2, s2.vs)
             visibleEndBlock == getBlockIndex(s2, s2.ve)
             s3 == IF /\ allVisibleLoaded(s2, visibleStartBlock, visibleEndBlock)
                      /\ s2.status = "LoadingVisible"
                   THEN setLoadingStatus(s2, "Idle")
                   ELSE s2
         IN  [s |-> [s3 EXCEPT !.loadTasks = Drop(@, {blockIndex})],
              merged |-> TRUE, first |-> startRow, last |-> endRow]

\* ------------------------------------------------------------------------
\* Steps
\* ------------------------------------------------------------------------

\* ------------------------------------------------------------------------
\* CsvDataSource: text
\* ------------------------------------------------------------------------

\* A file is the sequence of its bytes, one-character strings; byte offset o
\* (from 0) is element o + 1.  The bytes are ASCII, so QString::fromUtf8
\* yields one character per byte.
ByteAt(file, offset) == file[offset + 1]

\* QByteArray(data + from, to - from): the bytes at the offsets from .. to - 1
Bytes(file, from, to) == SubSeq(file, from + 1, to)

\* QChar::isSpace, for the characters of the files
WhiteSpace == {" ", "\t", "\r", "\n"}

\* QString::trimmed
RECURSIVE trimmedLeft(_)
trimmedLeft(str) ==
    IF str # << >> /\ Head(str) \in WhiteSpace THEN trimmedLeft(Tail(str)) ELSE str

RECURSIVE trimmedRight(_)
trimmedRight(str) ==
    IF str # << >> /\ str[Len(str)] \in WhiteSpace
    THEN trimmedRight(SubSeq(str, 1, Len(str) - 1))
    ELSE str

trimmed(str) == trimmedRight(trimmedLeft(str))

\* QVariant(QString) and the invalid QVariant()
StringVariant(str) == [null |-> FALSE, text |-> str]
NullVariant == [null |-> TRUE, text |-> << >>]

\* while (end < limit && data[end] != '\n') end++
\* The offset the loop stops at: the first newline at or after end, or
\* limit when there is none before it.  The bytes are examined ScanChunk at
\* a time.
RECURSIVE scanLine(_, _, _)
scanLine(file, end, limit) ==
    LET stop == Min(limit, end + ScanChunk)
        newlines == {j \in end .. stop - 1 : ByteAt(file, j) = "\n"}
    IN  IF end >= limit THEN end
        ELSE IF newlines # {} THEN CHOOSE j \in newlines : \A k \in newlines : j <= k
        ELSE scanLine(file, stop, limit)

\* The loop of parseLine from character i (from 1) on.
RECURSIVE parseLoop(_, _, _, _, _, _, _)
parseLoop(line, delimiter, i, inQuotes, escaped, currentField, result) ==
    IF i > Len(line)
    THEN Append(result, StringVariant(trimmed(currentField)))
    ELSE LET c == line[i]
         IN  IF escaped
             THEN parseLoop(line, delimiter, i + 1, inQuotes, FALSE,
                            Append(currentField, c), result)
             ELSE IF c = "\\"
             THEN parseLoop(line, delimiter, i + 1, inQuotes, TRUE,
                            currentField, result)
             ELSE IF c = "\""
             THEN parseLoop(line, delimiter, i + 1, ~inQuotes, FALSE,
                            currentField, result)
             ELSE IF c = delimiter /\ ~inQuotes
             THEN parseLoop(line, delimiter, i + 1, inQuotes, FALSE, << >>,
                            Append(result, StringVariant(trimmed(currentField))))
             ELSE parseLoop(line, delimiter, i + 1, inQuotes, FALSE,
                            Append(currentField, c), result)

\* parseLine with inQuotes set when the loop starts.
parseLine_startQuoted(r, line) ==
    parseLoop(line, r.m_delimiter, 1, TRUE, FALSE, << >>, << >>)

parseLine(r, line) ==
    parseLoop(line, r.m_delimiter, 1, FALSE, FALSE, << >>, << >>)

\* ------------------------------------------------------------------------
\* CsvDataSource: the object
\* ------------------------------------------------------------------------

\* The members of a CsvDataSource, with the file m_filePath names (exists:
\* there is such a file; file: its bytes), whether m_file is open, whether
\* m_file.map fails for a block of 1 MB (mapFails), and the maxCacheSize
\* argument of the constructor.  NoReader: none constructed.
NoReader ==
    [ constructed |-> FALSE, exists |-> FALSE, file |-> << >>, isOpen |-> FALSE,
      maxCacheSizeArg |-> 0,
      m_hasHeader |-> FALSE, m_delimiter |-> ",", m_rowCount |-> -1,
      m_columnCount |-> 0, m_headers |-> << >>, m_isValid |-> FALSE,
      m_errorString |-> "", mapFails |-> FALSE,
      m_fileSize |-> 0, m_rowOffsets |-> << >>, m_maxCacheSize |-> 0,
      m_rowCache |-> EmptyMap, m_cacheOrder |-> << >> ]

\* The start and the size of the mapping of the block an offset lies in:
\* a block of 1 MB, or of 64 KB when the larger mapping fails.
mapBlock(r, offset) ==
    LET blockSize == IF r.mapFails THEN SmallMapBlockSize ELSE MapBlockSize
        blockStart == offset - (offset % blockSize)
    IN  [blockStart |-> blockStart,
         mapSize |-> Min(blockSize, r.m_fileSize - blockStart)]

\* The messages of m_errorString
OpenError == "cannot open file"
EmptyFileError == "file is empty"
HeaderError == "format error: header too long"

\* initialize() without the test of a header line that has no end.
initialize_lenient(r) ==
    IF ~r.exists
    THEN [r |-> [r EXCEPT !.m_errorString = OpenError], ret |-> FALSE]
    ELSE LET fileSize == Len(r.file)
             headerMapSize == Min(fileSize, MapBlockSize)
             headerEnd == scanLine(r.file, 0, headerMapSize)
             headerData == parseLine(r, Bytes(r.file, 0, headerEnd))
         IN  IF fileSize = 0
             THEN [r |-> [r EXCEPT !.m_fileSize = 0,
                                   !.m_errorString = EmptyFileError],
                   ret |-> FALSE]
             ELSE [r |-> [r EXCEPT
                            !.isOpen = TRUE,
                            !.m_fileSize = fileSize,
                            !.m_headers = [i \in 1 .. Len(headerData) |->
                                             headerData[i].text],
                            !.m_columnCount = Len(headerData),
                            !.m_rowOffsets = IF r.m_hasHeader
                                             THEN << 0, headerEnd + 1 >>
                                             ELSE << 0 >>],
                   ret |-> Len(headerData) > 0]

\* The state initialize() leaves and the value it returns.
initialize(r) ==
    IF ~r.exists
    THEN [r |-> [r EXCEPT !.m_errorString = OpenError], ret |-> FALSE]
    ELSE LET fileSize == Len(r.file)
             headerMapSize == Min(fileSize, MapBlockSize)
             headerEnd == scanLine(r.file, 0, headerMapSize)
             headerData == parseLine(r, Bytes(r.file, 0, headerEnd))
         IN  IF fileSize = 0
             THEN [r |-> [r EXCEPT !.m_fileSize = 0,
                                   !.m_errorString = EmptyFileError],
                   ret |-> FALSE]
             ELSE IF headerEnd >= headerMapSize
             THEN [r |-> [r EXCEPT !.m_fileSize = fileSize,
                                   !.m_errorString = HeaderError],
                   ret |-> FALSE]
             ELSE [r |-> [r EXCEPT
                            !.isOpen = TRUE,
                            !.m_fileSize = fileSize,
                            !.m_headers = [i \in 1 .. Len(headerData) |->
                                             headerData[i].text],
                            !.m_columnCount = Len(headerData),
                            !.m_rowOffsets = IF r.m_hasHeader
                                             THEN << 0, headerEnd + 1 >>
                                             ELSE << 0 >>],
                   ret |-> Len(headerData) > 0]

\* CsvDataSource(filePath, hasHeader, delimiter, maxCacheSize)
construct(exists, file, hasHeader, delimiter, maxCacheSize) ==
    LET r0 == [NoReader EXCEPT
                 !.constructed = TRUE, !.exists = exists, !.file = file,
                 !.maxCacheSizeArg = maxCacheSize,
                 !.m_hasHeader = hasHeader, !.m_delimiter = delimiter,
                 !.m_maxCacheSize = maxCacheSize]
        i == initialize(r0)
    IN  [i.r EXCEPT !.m_isValid = i.ret]

\* The loop of calculateRowCount: the number of non-empty lines from
\* currentOffset on, added to count.
RECURSIVE countLines(_, _, _)
countLines(r, currentOffset, count) ==
    IF currentOffset >= r.m_fileSize
    THEN count
    ELSE LET m == mapBlock(r, currentOffset)
             lineEnd == scanLine(r.file, currentOffset, m.blockStart + m.mapSize)
         IN  countLines(r, lineEnd + 1,
                        IF lineEnd > currentOffset THEN count + 1 ELSE count)

calculateRowCount(r) ==
    IF r.m_rowCount # -1 \/ ~r.isOpen
    THEN r
    ELSE LET currentOffset == IF Len(r.m_rowOffsets) > 1 THEN r.m_rowOffsets[2] ELSE 0
         IN  IF currentOffset >= r.m_fileSize
             THEN [r EXCEPT !.m_rowCount = 0]
             ELSE [r EXCEPT !.m_rowCount = countLines(r, currentOffset, 0)]

\* The loop of ensureRowOffsetCalculated: the offsets after it.
RECURSIVE extendOffsets(_, _, _, _)
extendOffsets(r, currentOffset, offsets, rowIndex) ==
    IF currentOffset < r.m_fileSize /\ Len(offsets) <= rowIndex
    THEN LET m == mapBlock(r, currentOffset)
             lineEnd == scanLine(r.file, currentOffset, m.blockStart + m.mapSize)
         IN  extendOffsets(r, lineEnd + 1,
                           IF lineEnd > currentOffset
                           THEN Append(offsets, currentOffset)
                           ELSE offsets,
                           rowIndex)
    ELSE offsets

ensureRowOffsetCalculated(r, rowIndex) ==
    IF rowIndex < 0
    THEN [r |-> r, ret |-> FALSE]
    ELSE IF rowIndex < Len(r.m_rowOffsets)
    THEN [r |-> r, ret |-> TRUE]
    ELSE LET empty == r.m_rowOffsets = << >>
             currentOffset == IF empty THEN 0
                              ELSE r.m_rowOffsets[Len(r.m_rowOffsets)]
             offsets == extendOffsets(r, currentOffset,
                                      IF empty THEN << 0 >> ELSE r.m_rowOffsets,
                                      rowIndex)
         IN  [r |-> [r EXCEPT !.m_rowOffsets = offsets],
              ret |-> rowIndex < Len(offsets)]

\* for (i = from; i <= actualEndRow; ++i) ensureRowOffsetCalculated(i)
RECURSIVE ensureEach(_, _, _)
ensureEach(r, i, actualEndRow) ==
    IF i > actualEndRow THEN r
    ELSE ensureEach(ensureRowOffsetCalculated(r, i).r, i + 1, actualEndRow)

ensureRowOffsetsCalculated(r, startRow, endRow) ==
    ensureEach(r,
               IF r.m_hasHeader THEN startRow + 1 ELSE startRow,
               IF r.m_hasHeader THEN endRow + 1 ELSE endRow)

\* The null QString
NullLine(r) == [r |-> r, isNull |-> TRUE, line |-> << >>]

getLineFromMappedData(r, rowIndex) ==
    IF rowIndex < 0 \/ ~r.isOpen
    THEN NullLine(r)
    ELSE LET actualRowIndex == IF r.m_hasHeader THEN rowIndex + 1 ELSE rowIndex
             e == ensureRowOffsetCalculated(r, actualRowIndex)
         IN  IF ~e.ret \/ actualRowIndex >= Len(e.r.m_rowOffsets)
             THEN NullLine(e.r)
             ELSE LET startOffset == e.r.m_rowOffsets[actualRowIndex + 1]
                      m == mapBlock(r, startOffset)
                      endOffset == scanLine(r.file, startOffset,
                                            m.blockStart + m.mapSize)
                  IN  IF startOffset >= r.m_fileSize
                      THEN NullLine(e.r)
                      ELSE [r |-> e.r, isNull |-> FALSE,
                            line |-> Bytes(r.file, startOffset, endOffset)]

\* QList::removeAll
removeAll(list, x) == SelectSeq(list, LAMBDA y : y # x)

cleanupCache(r) ==
    IF r.m_cacheOrder = << >>
    THEN r
    ELSE [r EXCEPT !.m_cacheOrder = Tail(@),
                   !.m_rowCache = Drop(@, {Head(r.m_cacheOrder)})]

cacheRow(r, rowIndex, rowData) ==
    LET r1 == [r EXCEPT !.m_maxCacheSize = HardMaxCacheSize]
        r2 == IF Cardinality(DOMAIN r1.m_rowCache) >= r1.m_maxCacheSize
              THEN cleanupCache(r1)
              ELSE r1
    IN  [r2 EXCEPT !.m_rowCache = Put(@, rowIndex, rowData),
                   !.m_cacheOrder = Append(removeAll(@, rowIndex), rowIndex)]

getFromCache(r, rowIndex) ==
    IF rowIndex \in DOMAIN r.m_rowCache
    THEN [r |-> [r EXCEPT !.m_cacheOrder = Append(removeAll(@, rowIndex), rowIndex)],
          ret |-> TRUE, data |-> r.m_rowCache[rowIndex]]
    ELSE [r |-> r, ret |-> FALSE, data |-> << >>]

\* Padding without the cut of a longer row.
fitColumns_padOnly(r, rowData) ==
    IF Len(rowData) < r.m_columnCount
    THEN rowData \o [i \in 1 .. r.m_columnCount - Len(rowData) |-> NullVariant]
    ELSE rowData

\* rowData padded with QVariant() or cut to m_columnCount values
fitColumns(r, rowData) ==
    IF Len(rowData) < r.m_columnCount
    THEN rowData \o [i \in 1 .. r.m_columnCount - Len(rowData) |-> NullVariant]
    ELSE IF Len(rowData) > r.m_columnCount
    THEN SubSeq(rowData, 1, r.m_columnCount)
    ELSE rowData

\* The loop of loadData from rowIndex on.
RECURSIVE loadRows(_, _, _, _)
loadRows(r, rowIndex, endRow, list) ==
    IF rowIndex >= endRow
    THEN [r |-> r, data |-> list]
    ELSE LET c == getFromCache(r, rowIndex)
             l == getLineFromMappedData(r, rowIndex)
             rowData == fitColumns(l.r, parseLine(l.r, l.line))
         IN  IF c.ret
             THEN loadRows(c.r, rowIndex + 1, endRow, Append(list, c.data))
             ELSE IF l.isNull
             THEN [r |-> l.r, data |-> list]
             ELSE loadRows(cacheRow(l.r, rowIndex, rowData), rowIndex + 1,
                           endRow, Append(list, rowData))

\* loadData without the bound of the row count on the last row read.
csvLoadData_unbounded(r, startRow, count) ==
    IF ~r.m_isValid \/ startRow < 0
    THEN [r |-> r, data |-> << >>]
    ELSE IF ~r.isOpen /\ ~r.exists
    THEN [r |-> [r EXCEPT !.m_errorString = OpenError], data |-> << >>]
    ELSE LET r1 == calculateRowCount([r EXCEPT !.isOpen = TRUE])
             endRow == startRow + count
         IN  IF r1.m_rowCount = -1
             THEN [r |-> [r1 EXCEPT !.m_rowCount = 0], data |-> << >>]
             ELSE IF startRow >= r1.m_rowCount \/ endRow - startRow <= 0
             THEN [r |-> r1, data |-> << >>]
             ELSE loadRows(ensureRowOffsetsCalculated(r1, startRow, endRow),
                           startRow, endRow, << >>)

\* CsvDataSource::loadData(startRow, count): the state left and the rows
\* returned.
csvLoadData(r, startRow, count) ==
    IF ~r.m_isValid \/ startRow < 0
    THEN [r |-> r, data |-> << >>]
    ELSE IF ~r.isOpen /\ ~r.exists
    THEN [r |-> [r EXCEPT !.m_errorString = OpenError], data |-> << >>]
    ELSE LET r1 == calculateRowCount([r EXCEPT !.isOpen = TRUE])
             endRow == Min(startRow + count, r1.m_rowCount)
         IN  IF r1.m_rowCount = -1
             THEN [r |-> [r1 EXCEPT !.m_rowCount = 0], data |-> << >>]
             ELSE IF startRow >= r1.m_rowCount \/ endRow - startRow <= 0
             THEN [r |-> r1, data |-> << >>]
             ELSE loadRows(ensureRowOffsetsCalculated(r1, startRow, endRow),
                           startRow, endRow, << >>)

\* CsvDataSource::rowCount(): the state left and the value returned.
csvRowCount(r) ==
    IF r.m_rowCount # -1
    THEN [r |-> r, ret |-> r.m_rowCount]
    ELSE IF ~r.isOpen
    THEN [r |-> r, ret |-> 0]
    ELSE LET r1 == calculateRowCount(r)
         IN  [r |-> r1, ret |-> IF r1.m_rowCount = -1 THEN 0 ELSE r1.m_rowCount]

\* CsvDataSource::columnCount()
csvColumnCount(r) == r.m_columnCount

\* CsvDataSource::isValid()
isValid(r) == r.m_isValid

\* CsvDataSource::errorString()
errorString(r) == r.m_errorString

\* CsvDataSource::headerData()
headerData(r) == r.m_headers

\* A call of the CsvDataSource, its arguments, the rows and the number it
\* returned.
CsvCall(op, a, b, rows, n) == [op |-> op, a |-> a, b |-> b, rows |-> rows, n |-> n]

NoCsvOp == CsvCall("none", 0, 0, << >>, 0)

NoOp == Op("none", 0, 0, EmptyValue, {}, 0, 0)

\* The VirtualTableView after its constructor: no model, a buffer of
\* DefaultBufferSize rows and the stored span (0, 0).  `forwarded' is the
\* pair of arguments of the last setVisibleRange call the view made, << >>
\* as long as it made none; `span' is the span updateVisibleData computed
\* last, << >> as long as it computed none.
NoView ==
    [ m_virtualModel |-> FALSE, m_bufferSize |-> DefaultBufferSize,
      m_visibleStartRow |-> 0, m_visibleEndRow |-> 0,
      span |-> << >>, forwarded |-> << >> ]

\* The state after the constructor.
Init ==
    /\ m_dataSource = NullSource
    /\ m_blockSize = DefaultBlockSize
    /\ m_preloadPolicy = "Balanced"
    /\ m_dataBlocks = EmptyMap
    /\ m_loadTasks = EmptyMap
    /\ m_loadingStatus = "Idle"
    /\ m_visibleStartRow = 0
    /\ m_visibleEndRow = 0
    /\ m_preloadBlocksAhead = 2
    /\ m_preloadBlocksBehind = 1
    /\ pool = << >>
    /\ events = << >>
    /\ nextId = 1
    /\ calls = 0
    /\ now = 1
    /\ crashed = FALSE
    /\ statusSignal = "none"
    /\ lastOp = NoOp
    /\ settling = FALSE
    /\ csv = NoReader
    /\ csvOp = NoCsvOp
    /\ view = NoView
    /\ m_dataMutex = "unlocked"

\* A call of the GUI thread that leaves the object in state s.
CallModel(s, op) ==
    /\ Commit(s)
    /\ lastOp' = op
    /\ calls' = calls + 1
    /\ UNCHANGED << events, now, crashed, csv, csvOp, m_dataMutex >>

\* A call made by the application itself: the view takes no part in it.
Call(s, op) ==
    /\ CallModel(s, op)
    /\ UNCHANGED view

Data(row, col) ==
    /\ ~crashed
    /\ LET r == data(Self, row, col)
       IN  Call(r.s, Op("data", row, col, r.ret, {}, 0, 0))
    /\ settling' = FALSE

SetDataSource(source) ==
    /\ ~crashed
    /\ Call(setDataSource(Self, source),
            Op("setDataSource", source, 0, EmptyValue, {}, 0, 0))
    /\ settling' = FALSE

SetBlockSize(blockSize) ==
    /\ ~crashed
    /\ Call(setBlockSize(Self, blockSize),
            Op("setBlockSize", blockSize, 0, EmptyValue, {}, 0, 0))
    /\ settling' = FALSE

SetPreloadPolicy(policy) ==
    /\ ~crashed
    /\ Call(setPreloadPolicy(Self, policy),
            Op("setPreloadPolicy", policy, 0, EmptyValue, {}, 0, 0))
    /\ settling' = FALSE

SetVisibleRange(startRow, endRow) ==
    /\ ~crashed
    /\ \E s \in setVisibleRange(Self, startRow, endRow) :
         Call(s, Op("setVisibleRange", startRow, endRow, EmptyValue,
                    (DOMAIN m_dataBlocks) \ (DOMAIN s.blocks), 0, 0))
    /\ settling' = (m_dataSource # NullSource
                    /\ Max(0, startRow) <= Min(rowCount(m_dataSource) - 1, endRow))

JumpToRow(rowIndex) ==
    /\ ~crashed
    /\ \E s \in jumpToRow(Self, rowIndex) :
         Call(s, Op("jumpToRow", rowIndex, 0, EmptyValue,
                    (DOMAIN m_dataBlocks) \ (DOMAIN s.blocks), 0, 0))
    /\ settling' = FALSE

SetScrollSpeed(speed) ==
    /\ ~crashed
    /\ Call(setScrollSpeed(Self, speed),
            Op("setScrollSpeed", speed, 0, EmptyValue, {}, 0, 0))
    /\ settling' = FALSE

\* The load function of the i-th task of the pool runs to its end on a pool
\* thread: m_dataSource->loadData(startRow, count), with m_dataSource read
\* now.  The pool starts its tasks in submission order, so only the first
\* PoolThreads tasks can be the one that finishes next.
WorkerRun(i) ==
    /\ ~crashed
    /\ i \in 1 .. Min(PoolThreads, Len(pool))
    /\ IF m_dataSource = NullSource
       THEN /\ crashed' = TRUE
            /\ UNCHANGED << pool, events >>
       ELSE /\ events' = Append(events,
                   [ id |-> pool[i].id, blockIndex |-> pool[i].blockIndex,
                     result |-> loadData(m_dataSource, pool[i].startRow, pool[i].count),
                     issuedFor |-> pool[i].issuedFor ])
            /\ pool' = [k \in 1 .. Len(pool) - 1 |->
                          IF k < i THEN pool[k] ELSE pool[k + 1]]
            /\ UNCHANGED crashed
    /\ lastOp' = Op("workerRun", i, 0, EmptyValue, {}, 0, 0)
    /\ UNCHANGED << m_dataSource, m_blockSize, m_preloadPolicy, m_dataBlocks,
                    m_loadTasks, m_loadingStatus, m_visibleStartRow,
                    m_visibleEndRow, m_preloadBlocksAhead, m_preloadBlocksBehind,
                    nextId, calls, now, statusSignal, settling, csv, csvOp, view,
                    m_dataMutex >>

\* The GUI thread delivers the `finished' signal of the task that finished
\* first: the lambda connected in loadBlock calls onBlockLoaded.
Finished ==
    /\ ~crashed
    /\ events # << >>
    /\ LET e == Head(events)
           r == onBlockLoaded(Self, e.blockIndex, e.result)
       IN  /\ Commit(r.s)
           /\ lastOp' = Op(IF r.merged THEN "onBlockLoaded" ELSE "dropped",
                           e.blockIndex, e.id, EmptyValue, {}, r.first, r.last)
    /\ events' = Tail(events)
    /\ UNCHANGED << calls, now, crashed, settling, csv, csvOp, view,
                    m_dataMutex >>

\* The millisecond clock advances.
Tick ==
    /\ ~crashed
    /\ now < MaxTime
    /\ now' = now + 1
    /\ lastOp' = Op("tick", 0, 0, EmptyValue, {}, 0, 0)
    /\ UNCHANGED << m_dataSource, m_blockSize, m_preloadPolicy, m_dataBlocks,
                    m_loadTasks, m_loadingStatus, m_visibleStartRow,
                    m_visibleEndRow, m_preloadBlocksAhead, m_preloadBlocksBehind,
                    pool, events, nextId, calls, crashed, statusSignal, settling,
                    csv, csvOp, view, m_dataMutex >>

\* ------------------------------------------------------------------------
\* CsvDataSource: steps
\* ------------------------------------------------------------------------

\* new CsvDataSource(filePath, hasHeader, ',', maxCacheSize)
CsvConstruct(exists, file, hasHeader, maxCacheSize) ==
    /\ ~csv.constructed
    /\ csv' = construct(exists, file, hasHeader, ",", maxCacheSize)
    /\ csvOp' = CsvCall("construct", 0, 0, << >>, 0)
    /\ UNCHANGED << m_dataSource, m_blockSize, m_preloadPolicy, m_dataBlocks,
                    m_loadTasks, m_loadingStatus, m_visibleStartRow,
                    m_visibleEndRow, m_preloadBlocksAhead, m_preloadBlocksBehind,
                    pool, events, nextId, calls, now, crashed, statusSignal,
                    lastOp, settling, view, m_dataMutex >>

CsvLoadData(startRow, count) ==
    /\ csv.constructed
    /\ LET l == csvLoadData(csv, startRow, count)
       IN  /\ csv' = l.r
           /\ csvOp' = CsvCall("loadData", startRow, count, l.data, Len(l.data))
    /\ calls' = calls + 1
    /\ UNCHANGED << m_dataSource, m_blockSize, m_preloadPolicy, m_dataBlocks,
                    m_loadTasks, m_loadingStatus, m_visibleStartRow,
                    m_visibleEndRow, m_preloadBlocksAhead, m_preloadBlocksBehind,
                    pool, events, nextId, now, crashed, statusSignal,
                    lastOp, settling, view, m_dataMutex >>

\* ensureRowOffsetCalculated(rowIndex) on a reader whose file is open
CsvEnsureRowOffset(rowIndex) ==
    /\ csv.constructed /\ csv.isOpen
    /\ LET e == ensureRowOffsetCalculated(csv, rowIndex)
       IN  /\ csv' = e.r
           /\ csvOp' = CsvCall("ensureRowOffsetCalculated", rowIndex, 0, << >>,
                               IF e.ret THEN 1 ELSE 0)
    /\ calls' = calls + 1
    /\ UNCHANGED << m_dataSource, m_blockSize, m_preloadPolicy, m_dataBlocks,
                    m_loadTasks, m_loadingStatus, m_visibleStartRow,
                    m_visibleEndRow, m_preloadBlocksAhead, m_preloadBlocksBehind,
                    pool, events, nextId, now, crashed, statusSignal,
                    lastOp, settling, view, m_dataMutex >>

\* parseLine(line) on a constructed reader, line being the argument chosen
\* for the call; it changes no member.
CsvParseLine ==
    /\ csv.constructed
    /\ csvOp.op = "line"
    /\ LET fields == parseLine(csv, csvOp.a)
       IN  csvOp' = CsvCall("parseLine", csvOp.a, 0, << fields >>, Len(fields))
    /\ UNCHANGED << m_dataSource, m_blockSize, m_preloadPolicy, m_dataBlocks,
                    m_loadTasks, m_loadingStatus, m_visibleStartRow,
                    m_visibleEndRow, m_preloadBlocksAhead, m_preloadBlocksBehind,
                    pool, events, nextId, calls, now, crashed, statusSignal,
                    lastOp, settling, csv, view, m_dataMutex >>

CsvRowCount ==
    /\ csv.constructed
    /\ LET c == csvRowCount(csv)
       IN  /\ csv' = c.r
           /\ csvOp' = CsvCall("rowCount", 0, 0, << >>, c.ret)
    /\ calls' = calls + 1
    /\ UNCHANGED << m_dataSource, m_blockSize, m_preloadPolicy, m_dataBlocks,
                    m_loadTasks, m_loadingStatus, m_visibleStartRow,
                    m_visibleEndRow, m_preloadBlocksAhead, m_preloadBlocksBehind,
                    pool, events, nextId, now, crashed, statusSignal,
                    lastOp, settling, view, m_dataMutex >>

\* ------------------------------------------------------------------------
\* Specification: two sources, block sizes 1000 and 2000, at most MaxCalls
\* calls, all within one millisecond
\* ------------------------------------------------------------------------

SourceArgs == {NullSource, "A", "B"}
BlockSizeArgs == {0, 2000}
RangeArgs == { << 950, 1050 >>, << -10, 3000 >>, << 2000, 1000 >> }
CellArgs == { << 0, 0 >>, << 2200, 0 >>, << 2500, 0 >> }
JumpArgs == {1200, 3000}
SpeedArgs == {0, 100, 6000}

ApiCall ==
    \/ \E src \in SourceArgs : SetDataSource(src)
    \/ \E n \in BlockSizeArgs : SetBlockSize(n)
    \/ \E p \in Policies : SetPreloadPolicy(p)
    \/ \E r \in RangeArgs : SetVisibleRange(r[1], r[2])
    \/ \E c \in CellArgs : Data(c[1], c[2])
    \/ \E row \in JumpArgs : JumpToRow(row)
    \/ \E v \in SpeedArgs : SetScrollSpeed(v)

Next ==
    \/ calls < MaxCalls /\ ApiCall
    \/ \E i \in 1 .. PoolThreads : WorkerRun(i)
    \/ Finished

Spec == Init /\ [][Next]_vars

\* ------------------------------------------------------------------------
\* Specification: source C (13 blocks of 1000 rows) on a machine whose pool
\* has one thread, the clock advancing; at most MaxEvictCalls calls, each
\* made while at most MaxBusy loads are unfinished or undelivered
\* ------------------------------------------------------------------------

EvictRangeArgs == { << -10, 20000 >>, << 5000, 5010 >> }
EvictCellArgs == { << 12500, 0 >> }
EvictSpeedArgs == {6000}

EvictCall ==
    \/ SetDataSource("C")
    \/ \E p \in Policies : SetPreloadPolicy(p)
    \/ \E r \in EvictRangeArgs : SetVisibleRange(r[1], r[2])
    \/ \E c \in EvictCellArgs : Data(c[1], c[2])
    \/ \E v \in EvictSpeedArgs : SetScrollSpeed(v)

NextEvict ==
    \/ calls < MaxEvictCalls /\ Len(pool) + Len(events) <= MaxBusy /\ EvictCall
    \/ WorkerRun(1)
    \/ Finished
    \/ Tick

SpecEvict == Init /\ [][NextEvict]_vars

\* ------------------------------------------------------------------------
\* Specification: the whole of source C shown and scrolled under the
\* Conservative policy, the clock advancing; at most MaxCleanCalls calls,
\* each made while at most MaxBusy loads are unfinished or undelivered
\* ------------------------------------------------------------------------
CleanRangeArgs == { << -10, 20000 >>, << 5000, 5010 >> }

CleanCall ==
    \/ SetDataSource("C")
    \/ SetPreloadPolicy("Conservative")
    \/ \E r \in CleanRangeArgs : SetVisibleRange(r[1], r[2])

NextClean ==
    \/ calls < MaxCleanCalls /\ Len(pool) + Len(events) <= MaxBusy /\ CleanCall
    \/ WorkerRun(1)
    \/ Finished
    \/ Tick

SpecClean == Init /\ [][NextClean]_vars

\* ------------------------------------------------------------------------
\* Specification: a change of policy while a range of one row or of a few
\* rows of source C is shown; at most MaxPolicyCalls calls, each made while
\* at most MaxBusy loads are unfinished or undelivered
\* ------------------------------------------------------------------------
PolicyRangeArgs == { << 5000, 5000 >>, << 5000, 5010 >> }

PolicyCall ==
    \/ SetDataSource("C")
    \/ \E p \in Policies : SetPreloadPolicy(p)
    \/ \E r \in PolicyRangeArgs : SetVisibleRange(r[1], r[2])

NextPolicy ==
    \/ calls < MaxPolicyCalls /\ Len(pool) + Len(events) <= MaxBusy /\ PolicyCall
    \/ WorkerRun(1)
    \/ Finished

SpecPolicy == Init /\ [][NextPolicy]_vars

\* ------------------------------------------------------------------------
\* Specification: scrolling over source C under each policy; at most
\* MaxPrefetchCalls calls, each made while at most MaxBusy loads are
\* unfinished or undelivered
\* ------------------------------------------------------------------------
PrefetchRangeArgs == { << 5000, 5010 >>, << 0, 999 >>, << 11990, 13500 >> }

PrefetchCall ==
    \/ SetDataSource("C")
    \/ \E p \in Policies : SetPreloadPolicy(p)
    \/ \E r \in PrefetchRangeArgs : SetVisibleRange(r[1], r[2])

NextPrefetch ==
    \/ calls < MaxPrefetchCalls /\ Len(pool) + Len(events) <= MaxBusy /\ PrefetchCall
    \/ WorkerRun(1)
    \/ Finished

SpecPrefetch == Init /\ [][NextPrefetch]_vars

\* ------------------------------------------------------------------------
\* Block geometry: small sources and many block sizes
\* ------------------------------------------------------------------------
SpanSourceArgs == {"D", "E"}
SpanBlockSizeArgs == {1, 2, 3, 4, 7, 8}
SpanCellArgs == {<< 0, 0 >>, << 3, 0 >>, << 6, 0 >>}

SpanCall ==
    \/ \E src \in SpanSourceArgs : SetDataSource(src)
    \/ \E n \in SpanBlockSizeArgs : SetBlockSize(n)
    \/ \E c \in SpanCellArgs : Data(c[1], c[2])

NextSpan ==
    \/ (calls < MaxSpanCalls /\ SpanCall)
    \/ WorkerRun(1)
    \/ Finished

SpecSpan == Init /\ [][NextSpan]_vars

\* ------------------------------------------------------------------------
\* Specification: cells inside and outside the 7 rows and 1 column of
\* source D, and of a model without source; at most MaxCellCalls calls
\* ------------------------------------------------------------------------
CellSourceArgs == {NullSource, "D"}
CellBlockSizeArgs == {2}
EdgeCellArgs == {<< 0, 0 >>, << 3, 0 >>, << -1, 0 >>, << 9, 0 >>,
                 << 0, -1 >>, << 0, 3 >>}

CellCall ==
    \/ \E src \in CellSourceArgs : SetDataSource(src)
    \/ \E n \in CellBlockSizeArgs : SetBlockSize(n)
    \/ \E c \in EdgeCellArgs : Data(c[1], c[2])

NextCell ==
    \/ (calls < MaxCellCalls /\ CellCall)
    \/ WorkerRun(1)
    \/ Finished

SpecCell == Init /\ [][NextCell]_vars

\* ------------------------------------------------------------------------
\* The file reader: every file of at most MaxFileLen bytes over a letter, the
\* delimiter and the newline, and some longer files
\* ------------------------------------------------------------------------
FileAlphabet == {"a", ",", "\n"}

SmallFiles == UNION {[1 .. n -> FileAlphabet] : n \in 0 .. MaxFileLen}

\* "id,name,score", "1,Alice,9.5", "2,Bob,7.25", each line ended by a newline
ScoreFile ==
    << "i", "d", ",", "n", "a", "m", "e", ",", "s", "c", "o", "r", "e",
       "\n", "1", ",", "A", "l", "i", "c", "e", ",", "9", ".", "5", "\n",
       "2", ",", "B", "o", "b", ",", "7", ".", "2", "5", "\n" >>

\* A blank line after the header and between the rows; a row with fewer and
\* a row with more fields than the header; no newline at the end
RaggedFile ==
    << "x", ",", "y", "\n", "\n", "1", "\n", "\n", "2", ",", "3", ",", "4",
       "\n", "5", ",", "6" >>

CsvFiles == SmallFiles \cup {ScoreFile, RaggedFile}

CsvStartArgs == {-1, 0, 1, 2}
CsvCountArgs == {0, 2, 3}

CsvStep ==
    \/ CsvRowCount
    \/ \E startRow \in CsvStartArgs, count \in CsvCountArgs :
          CsvLoadData(startRow, count)

NextCsv ==
    \/ \E file \in CsvFiles, hasHeader \in BOOLEAN :
          CsvConstruct(TRUE, file, hasHeader, CacheSizeArg)
    \/ CsvConstruct(FALSE, << >>, TRUE, CacheSizeArg)
    \/ (calls < MaxCsvCalls /\ CsvStep)

SpecCsv == Init /\ [][NextCsv]_vars

\* ------------------------------------------------------------------------
\* Field splitting alone: every line of at most MaxLineLen characters over a
\* letter, a blank, the delimiter, the double quote and the backslash
\* ------------------------------------------------------------------------
LineAlphabet == {"a", " ", ",", "\"", "\\"}

ParseLines == UNION {[1 .. n -> LineAlphabet] : n \in 0 .. MaxLineLen}

\* A reader of ScoreFile and a line to split.
InitParse ==
    /\ m_dataSource = NullSource
    /\ m_blockSize = DefaultBlockSize
    /\ m_preloadPolicy = "Balanced"
    /\ m_dataBlocks = EmptyMap
    /\ m_loadTasks = EmptyMap
    /\ m_loadingStatus = "Idle"
    /\ m_visibleStartRow = 0
    /\ m_visibleEndRow = 0
    /\ m_preloadBlocksAhead = 2
    /\ m_preloadBlocksBehind = 1
    /\ pool = << >>
    /\ events = << >>
    /\ nextId = 1
    /\ calls = 0
    /\ now = 1
    /\ crashed = FALSE
    /\ statusSignal = "none"
    /\ lastOp = NoOp
    /\ settling = FALSE
    /\ csv = construct(TRUE, ScoreFile, TRUE, ",", CacheSizeArg)
    /\ \E line \in ParseLines : csvOp = CsvCall("line", line, 0, << >>, 0)
    /\ view = NoView
    /\ m_dataMutex = "unlocked"

NextParse == CsvParseLine

SpecParse == InitParse /\ [][NextParse]_vars

\* ------------------------------------------------------------------------
\* VirtualTableView: the viewport of a model
\* ------------------------------------------------------------------------

\* VirtualTableModel::rowCount()
modelRowCount(ds) == IF ds = NullSource THEN 0 ELSE rowCount(ds)

\* calculateVisibleRows(): the first and the last row of the viewport,
\* geometry being the rows the widget finds at the top and at the bottom of
\* the viewport (by indexAt, or from the scroll bar and the row height).
calculateVisibleRows(v, ds, geometry) ==
    IF ~v.m_virtualModel \/ modelRowCount(ds) = 0 THEN << 0, 0 >>
    ELSE LET startRow == Max(0, geometry[1])
             endRow == Min(modelRowCount(ds) - 1, geometry[2])
         IN  << startRow, IF endRow < startRow THEN startRow ELSE endRow >>

\* The span updateVisibleData computes: the visible rows widened by the
\* buffer and clamped to the rows of the model.
bufferedSpan(v, ds, geometry) ==
    LET visibleRows == calculateVisibleRows(v, ds, geometry)
    IN  << Max(0, visibleRows[1] - v.m_bufferSize),
           Min(modelRowCount(ds) - 1, visibleRows[2] + v.m_bufferSize) >>

\* updateVisibleData() of a view that has a model: the span is passed to
\* setVisibleRange unless it equals the stored one.
UpdateVisibleData(geometry) ==
    /\ ~crashed
    /\ view.m_virtualModel
    /\ LET span == bufferedSpan(view, m_dataSource, geometry)
           op == Op("updateVisibleData", span[1], span[2], EmptyValue, {}, 0, 0)
       IN  IF span[1] = view.m_visibleStartRow /\ span[2] = view.m_visibleEndRow
           THEN /\ CallModel(Self, op)
                /\ view' = [view EXCEPT !.span = span]
                /\ UNCHANGED settling
           ELSE /\ \E s \in setVisibleRange(Self, span[1], span[2]) :
                     CallModel(s, op)
                /\ view' = [view EXCEPT !.m_visibleStartRow = span[1],
                                        !.m_visibleEndRow = span[2],
                                        !.span = span, !.forwarded = span]
                /\ settling' = (m_dataSource # NullSource
                                /\ Max(0, span[1])
                                      <= Min(rowCount(m_dataSource) - 1, span[2]))

\* setVirtualModel(model) with the one model there is; the update it
\* schedules when the view is visible is a later updateVisibleData.
ViewSetVirtualModel ==
    /\ ~crashed
    /\ ~view.m_virtualModel
    /\ view' = [view EXCEPT !.m_virtualModel = TRUE]
    /\ lastOp' = Op("setVirtualModel", 0, 0, EmptyValue, {}, 0, 0)
    /\ calls' = calls + 1
    /\ UNCHANGED << m_dataSource, m_blockSize, m_preloadPolicy, m_dataBlocks,
                    m_loadTasks, m_loadingStatus, m_visibleStartRow,
                    m_visibleEndRow, m_preloadBlocksAhead, m_preloadBlocksBehind,
                    pool, events, nextId, now, crashed, statusSignal, settling,
                    csv, csvOp, m_dataMutex >>

\* setBufferSize(bufferSize) of a hidden view: the buffer changes and the
\* span is computed anew by the next updateVisibleData.
ViewSetBufferSize(bufferSize) ==
    /\ ~crashed
    /\ bufferSize > 0 /\ bufferSize # view.m_bufferSize
    /\ view' = [view EXCEPT !.m_bufferSize = bufferSize]
    /\ lastOp' = Op("setBufferSize", bufferSize, 0, EmptyValue, {}, 0, 0)
    /\ calls' = calls + 1
    /\ UNCHANGED << m_dataSource, m_blockSize, m_preloadPolicy, m_dataBlocks,
                    m_loadTasks, m_loadingStatus, m_visibleStartRow,
                    m_visibleEndRow, m_preloadBlocksAhead, m_preloadBlocksBehind,
                    pool, events, nextId, now, crashed, statusSignal, settling,
                    csv, csvOp, m_dataMutex >>

\* A view on the sources of one row and of seven rows, with the default
\* buffer and a buffer of one row, and at most MaxViewCalls calls.
ViewSourceArgs == {"F", "D"}
ViewBufferArgs == {1}
ViewportArgs == {<< 0, 0 >>, << 0, 3 >>, << 3, 5 >>}

ViewCall ==
    \/ \E src \in ViewSourceArgs : SetDataSource(src)
    \/ ViewSetVirtualModel
    \/ \E b \in ViewBufferArgs : ViewSetBufferSize(b)
    \/ \E g \in ViewportArgs : UpdateVisibleData(g)

NextView ==
    \/ (calls < MaxViewCalls /\ ViewCall)
    \/ WorkerRun(1)
    \/ Finished

SpecView == Init /\ [][NextView]_vars

\* ------------------------------------------------------------------------
\* Observers: slots connected to the signals of the model
\* ------------------------------------------------------------------------

\* onBlockLoaded(blockIndex, list) of a model that has a source, up to its
\* emit of dataChanged: the block is merged and m_dataMutex is held.
atDataChanged(s, blockIndex, list) ==
    LET s1 == getBlock(s, blockIndex)
    IN  [s1 EXCEPT !.blocks[blockIndex].data = list,
                   !.blocks[blockIndex].isValid = TRUE,
                   !.blocks[blockIndex].lastAccessTime = s.now]

\* onBlockLoaded sets the status to Idle after the merge, and so emits
\* loadingStatusChanged with m_dataMutex held.
emitsStatusChanged(s, blockIndex, list) ==
    LET s2 == atDataChanged(s, blockIndex, list)
    IN  /\ allVisibleLoaded(s2, getBlockIndex(s2, s2.vs), getBlockIndex(s2, s2.ve))
        /\ s2.status = "LoadingVisible"

\* data(index(row, col), DisplayRole) reaches its QMutexLocker: the index is
\* valid and within the rows and columns of the source.
dataLocks(s, row, col) ==
    /\ row >= 0 /\ col >= 0
    /\ s.ds # NullSource
    /\ row < rowCount(s.ds) /\ col < columnCount(s.ds)

\* The `finished' signal of the task that finished first is delivered while
\* a slot connected to signal (dataChanged or loadingStatusChanged) calls
\* data(index(row, col)).  The slot runs inside the emit; a data() that
\* reaches QMutexLocker while onBlockLoaded holds the non-recursive
\* m_dataMutex waits for it on the thread that holds it.
FinishedObserved(signal, row, col) ==
    /\ ~crashed
    /\ m_dataMutex = "unlocked"
    /\ events # << >>
    /\ LET e == Head(events)
           r == onBlockLoaded(Self, e.blockIndex, e.result)
           s2 == atDataChanged(Self, e.blockIndex, e.result)
           emitted == /\ r.merged
                      /\ signal = "loadingStatusChanged"
                            => emitsStatusChanged(Self, e.blockIndex, e.result)
           held == IF signal = "dataChanged" THEN s2
                   ELSE setLoadingStatus(s2, "Idle")
       IN  IF emitted /\ dataLocks(held, row, col)
           THEN /\ Commit(held)
                /\ m_dataMutex' = "locked"
                /\ lastOp' = Op("data", row, col, EmptyValue, {}, r.first, r.last)
           ELSE /\ Commit(r.s)
                /\ UNCHANGED m_dataMutex
                /\ lastOp' = Op(IF r.merged THEN "onBlockLoaded" ELSE "dropped",
                                e.blockIndex, e.id, EmptyValue, {}, r.first, r.last)
    /\ events' = Tail(events)
    /\ UNCHANGED << calls, now, crashed, settling, csv, csvOp, view >>

\* A model on the source of seven rows with blocks of two rows, observed by
\* a slot that reads a cell of the source or an index outside of it.
ObserverSignals == {"dataChanged", "loadingStatusChanged"}
ObserverCellArgs == {<< 0, 0 >>, << 3, 0 >>, << 9, 0 >>}
ObserverRangeArgs == {<< 0, 1 >>, << 2, 5 >>}

ObserverCall ==
    \/ \E src \in {NullSource, "D"} : SetDataSource(src)
    \/ SetBlockSize(2)
    \/ \E r \in ObserverRangeArgs : SetVisibleRange(r[1], r[2])
    \/ \E c \in ObserverCellArgs : Data(c[1], c[2])

NextObserver ==
    \/ (calls < MaxObserverCalls /\ m_dataMutex = "unlocked" /\ ObserverCall)
    \/ WorkerRun(1)
    \/ \E sig \in ObserverSignals : \E c \in ObserverCellArgs :
          FinishedObserved(sig, c[1], c[2])

SpecObserver == Init /\ [][NextObserver]_vars

\* ------------------------------------------------------------------------
\* Mapping windows: files longer than 64 KB, read with blocks of 1 MB and,
\* when that mapping fails, with blocks of 64 KB
\* ------------------------------------------------------------------------

\* new CsvDataSource(filePath, true, ',', maxCacheSize) on a system where,
\* once the file is open, m_file.map fails for a block of 1 MB (mapFails).
CsvConstructMapped(file, mapFails) ==
    /\ ~csv.constructed
    /\ csv' = [construct(TRUE, file, TRUE, ",", CacheSizeArg)
                 EXCEPT !.mapFails = mapFails]
    /\ csvOp' = CsvCall("construct", 0, 0, << >>, 0)
    /\ UNCHANGED << m_dataSource, m_blockSize, m_preloadPolicy, m_dataBlocks,
                    m_loadTasks, m_loadingStatus, m_visibleStartRow,
                    m_visibleEndRow, m_preloadBlocksAhead, m_preloadBlocksBehind,
                    pool, events, nextId, calls, now, crashed, statusSignal,
                    lastOp, settling, view, m_dataMutex >>

\* getLineFromMappedData(rowIndex) on a constructed reader
CsvGetLine(rowIndex) ==
    /\ csv.constructed
    /\ LET l == getLineFromMappedData(csv, rowIndex)
       IN  /\ csv' = l.r
           /\ csvOp' = CsvCall("getLineFromMappedData", rowIndex, 0,
                               << l.line >>, IF l.isNull THEN 0 ELSE 1)
    /\ calls' = calls + 1
    /\ UNCHANGED << m_dataSource, m_blockSize, m_preloadPolicy, m_dataBlocks,
                    m_loadTasks, m_loadingStatus, m_visibleStartRow,
                    m_visibleEndRow, m_preloadBlocksAhead, m_preloadBlocksBehind,
                    pool, events, nextId, now, crashed, statusSignal,
                    lastOp, settling, view, m_dataMutex >>

\* A header "a", a first row that ends at offset firstEnd, a second row
\* that ends LastRowLen bytes after the end of the first 64 KB, and a last
\* row of LastRowLen bytes; every line ends with a newline.
WindowFile(firstEnd) ==
    LET secondEnd == SmallMapBlockSize + LastRowLen
        size == secondEnd + LastRowLen + 2
    IN  [i \in 1 .. size |->
           IF i - 1 \in {1, firstEnd, secondEnd, size - 1} THEN "\n" ELSE "a"]

\* The file whose first row ends at offset 10, and the small files; the
\* row read is the second one, the row indexed the one after it.
WindowFiles == {WindowFile(10)} \cup SmallFiles
WindowRowArgs == {1}

WindowStep ==
    \/ CsvRowCount
    \/ \E i \in WindowRowArgs : CsvEnsureRowOffset(i + 2)
    \/ \E i \in WindowRowArgs : CsvGetLine(i)

NextWindow ==
    \/ \E file \in WindowFiles, mapFails \in BOOLEAN :
          CsvConstructMapped(file, mapFails)
    \/ (calls < MaxWindowCalls /\ WindowStep)

SpecWindow == Init /\ [][NextWindow]_vars

\* ------------------------------------------------------------------------
\* The offset index alone: at most MaxOffsetCalls calls of
\* ensureRowOffsetCalculated on the reader of each file
\* ------------------------------------------------------------------------
OffsetRowArgs == {-1, 0, 1, 2, 5}

NextOffsets ==
    \/ \E file \in CsvFiles, hasHeader \in BOOLEAN :
          CsvConstruct(TRUE, file, hasHeader, CacheSizeArg)
    \/ (calls < MaxOffsetCalls /\ \E i \in OffsetRowArgs : CsvEnsureRowOffset(i))

SpecOffsets == Init /\ [][NextOffsets]_vars

\* ------------------------------------------------------------------------
\* Vocabulary of the properties
\* ------------------------------------------------------------------------

\* ceil(a / b) for a >= 0, b > 0
CeilDiv(a, b) == IF a % b = 0 THEN a \div b ELSE (a \div b) + 1

TotalBlocks == CeilDiv(rowCount(m_dataSource), m_blockSize)

\* Rows of block b of the active source with the current block size.
BlockStart(b) == b * m_blockSize
BlockLength(b) == Min(m_blockSize, rowCount(m_dataSource) - BlockStart(b))

\* Block indices of the rows first .. last
BlocksOfRows(first, last) == (first \div m_blockSize) .. (last \div m_blockSize)

VisibleBlocks == BlocksOfRows(m_visibleStartRow, m_visibleEndRow)

CenterBlock ==
    ((m_visibleStartRow \div m_blockSize) + (m_visibleEndRow \div m_blockSize)) \div 2

\* The prefetch window of the specification around block center.
PrefetchWindow(center) ==
    Max(0, center - m_preloadBlocksBehind) ..
        Min(TotalBlocks - 1, center + m_preloadBlocksAhead)

ResidentBlocks == {b \in DOMAIN m_dataBlocks : m_dataBlocks[b].isValid}

\* Blocks with a load whose function has not returned yet.
RunningBlocks == {pool[i].blockIndex : i \in 1 .. Len(pool)}

\* Blocks with a load whose result is not merged yet.
PendingBlocks == RunningBlocks \cup {events[i].blockIndex : i \in 1 .. Len(events)}

\* Number of loads of block b whose result is not merged yet.
PendingLoads(b) ==
    Cardinality({i \in 1 .. Len(pool) : pool[i].blockIndex = b})
        + Cardinality({i \in 1 .. Len(events) : events[i].blockIndex = b})

InRange(row, col) ==
    /\ m_dataSource # NullSource
    /\ 0 <= row /\ row < rowCount(m_dataSource)
    /\ 0 <= col /\ col < columnCount(m_dataSource)

\* ------------------------------------------------------------------------
\* C1: whenever data(row, col) for an in-range (row, col) returns something
\* other than the pending placeholder, the value is cell (row, col) of the
\* active data source.  Stated of the value data() returns in every
\* reachable state, for the cells of CellArgs.
\* ------------------------------------------------------------------------
C1_StableLookup ==
    \A c \in CellArgs :
        InRange(c[1], c[2]) =>
            LET ret == data(Self, c[1], c[2]).ret
            IN  ret # Placeholder => ret = Cell(m_dataSource, c[1], c[2])

\* ------------------------------------------------------------------------
\* C2: a stale load result is discarded: every valid block of the store
\* holds the rows of its own span, read from the active source with the
\* current block size.
\* ------------------------------------------------------------------------
C2_StaleDiscarded ==
    \A b \in ResidentBlocks :
        m_dataBlocks[b].data =
            [src |-> m_dataSource, start |-> BlockStart(b), n |-> BlockLength(b)]

\* ------------------------------------------------------------------------
\* C3: at most one load is pending for a block index: no block has two loads
\* whose results are not merged yet.
\* ------------------------------------------------------------------------
C3_AtMostOnePending ==
    \A b \in PendingBlocks : PendingLoads(b) <= 1

\* ------------------------------------------------------------------------
\* C4: data(row, col) for an in-range cell whose block is not valid returns
\* the placeholder in the same call, and when it returns a load of that
\* block, for the rows of the block, is running and registered in
\* m_loadTasks.
\* ------------------------------------------------------------------------
C4_PlaceholderSchedules ==
    (/\ lastOp.op = "data"
     /\ InRange(lastOp.a, lastOp.b)
     /\ (lastOp.a \div m_blockSize) \notin ResidentBlocks)
    => LET b == lastOp.a \div m_blockSize
       IN  /\ lastOp.ret = Placeholder
           /\ b \in DOMAIN m_loadTasks
           /\ \E i \in 1 .. Len(pool) :
                /\ pool[i].id = m_loadTasks[b]
                /\ pool[i].blockIndex = b
                /\ pool[i].startRow = BlockStart(b)
                /\ pool[i].count = BlockLength(b)

\* getRow(2200) with block size 1000 returned the placeholder and block 2 is
\* loading.
C4_Witness ==
    /\ lastOp.op = "data" /\ lastOp.a = 2200 /\ lastOp.ret = Placeholder
    /\ m_blockSize = 1000
    /\ 2 \in RunningBlocks /\ 2 \notin ResidentBlocks

\* ------------------------------------------------------------------------
\* C5: the cleanup run by setVisibleRange removes no block whose rows
\* intersect the visible range.
\* ------------------------------------------------------------------------
C5_VisibleNeverEvicted ==
    lastOp.op = "setVisibleRange" => lastOp.evicted \cap VisibleBlocks = {}

\* ------------------------------------------------------------------------
\* C6: cleanupBlocks removes no block of the prefetch window
\* [max(0, center - blocksBehind), min(totalBlocks - 1, center + blocksAhead)]
\* around the center block of the visible range.
\* ------------------------------------------------------------------------
C6_WindowKept ==
    lastOp.op = "setVisibleRange" =>
        lastOp.evicted \cap PrefetchWindow(CenterBlock) = {}

\* A cleanup removed blocks while blocks of the window were resident.
C6_Witness ==
    /\ lastOp.op = "setVisibleRange"
    /\ lastOp.evicted # {}
    /\ PrefetchWindow(CenterBlock) \cap ResidentBlocks # {}

\* ------------------------------------------------------------------------
\* C7: after setVisibleRange, once every block of the visible range is
\* resident and every issued load is merged, with no call in between, the
\* loading status is Idle.
\* ------------------------------------------------------------------------
C7_IdleWhenLoaded ==
    (/\ settling
     /\ pool = << >> /\ events = << >>
     /\ VisibleBlocks \subseteq ResidentBlocks)
    => m_loadingStatus = "Idle"

\* ------------------------------------------------------------------------
\* C8: when setDataSource(source) returns, the active source is the given
\* one, the block store and the pending-load set are empty and
\* loadingStatus() is Idle.
\* ------------------------------------------------------------------------
C8_SetDataSourceResets ==
    lastOp.op = "setDataSource" =>
        /\ m_dataSource = lastOp.a
        /\ m_dataBlocks = EmptyMap
        /\ m_loadTasks = EmptyMap
        /\ m_loadingStatus = "Idle"

\* ------------------------------------------------------------------------
\* C9: setVisibleRange(start, end) clamps the range to [0, totalRows - 1];
\* with start > end after clamping it changes nothing; otherwise the stored
\* visible range is the clamped one and, when the call returns, every block
\* of the range is resident or has a load pending.
\* ------------------------------------------------------------------------
C9_RangeStep ==
    lastOp'.op = "setVisibleRange" =>
        LET startRow == Max(0, lastOp'.a)
            endRow == Min(rowCount(m_dataSource) - 1, lastOp'.b)
        IN  IF m_dataSource = NullSource \/ startRow > endRow
            THEN UNCHANGED << m_visibleStartRow, m_visibleEndRow, m_dataBlocks,
                              m_loadTasks, m_loadingStatus >>
            ELSE /\ m_visibleStartRow' = startRow
                 /\ m_visibleEndRow' = endRow
                 /\ \A b \in BlocksOfRows(startRow, endRow) :
                        b \in ResidentBlocks' \/ b \in PendingBlocks'

C9_RangeLoadedOrPending == [][C9_RangeStep]_vars

\* ------------------------------------------------------------------------
\* C10 (as claimed): on a fresh cache with block size 1000 and the default
\* policy, setVisibleRange(950, 1050) leaves loads pending for exactly the
\* blocks 0 and 1.
\* ------------------------------------------------------------------------
FreshDefaultCache ==
    /\ m_dataSource # NullSource
    /\ m_dataBlocks = EmptyMap /\ pool = << >> /\ events = << >>
    /\ m_blockSize = 1000
    /\ m_preloadPolicy = "Balanced"
    /\ m_preloadBlocksAhead = 2 /\ m_preloadBlocksBehind = 1

C10_OnlyVisibleStep ==
    (/\ FreshDefaultCache
     /\ lastOp'.op = "setVisibleRange" /\ lastOp'.a = 950 /\ lastOp'.b = 1050)
    => PendingBlocks' = {0, 1}

C10_OnlyVisibleLoaded == [][C10_OnlyVisibleStep]_vars

\* ------------------------------------------------------------------------
\* C10 (amended): setVisibleRange issues a load for exactly the blocks of
\* the visible range [start / blockSize, end / blockSize] and of the
\* prefetch window around their center that are neither resident nor
\* loading; on a fresh cache with block size 1000 and the default policy,
\* setVisibleRange(950, 1050) leaves loads pending for the blocks 0 and 1
\* and the blocks of the window [0, min(totalBlocks - 1, 2)].
\* ------------------------------------------------------------------------
C10_IssuedStep ==
    lastOp'.op = "setVisibleRange" =>
        LET startRow == Max(0, lastOp'.a)
            endRow == Min(rowCount(m_dataSource) - 1, lastOp'.b)
            wanted == BlocksOfRows(startRow, endRow) \cup
                      PrefetchWindow(((startRow \div m_blockSize)
                                      + (endRow \div m_blockSize)) \div 2)
            issued == {pool'[i].blockIndex :
                         i \in {k \in 1 .. Len(pool') : pool'[k].id >= nextId}}
        IN  (m_dataSource # NullSource /\ startRow <= endRow) =>
               /\ issued = {b \in wanted :
                              /\ b \notin ResidentBlocks
                              /\ ~isLoading(Self, b)}
               /\ (FreshDefaultCache /\ lastOp'.a = 950 /\ lastOp'.b = 1050) =>
                      PendingBlocks' = (0 .. 1) \cup (0 .. Min(TotalBlocks - 1, 2))

C10_VisibleAndWindowLoaded == [][C10_IssuedStep]_vars

\* setVisibleRange(950, 1050) on a fresh cache left loads pending for the
\* blocks 0, 1 and 2.
C10_Witness ==
    /\ lastOp.op = "setVisibleRange" /\ lastOp.a = 950 /\ lastOp.b = 1050
    /\ m_blockSize = 1000 /\ m_preloadPolicy = "Balanced"
    /\ m_dataBlocks = EmptyMap /\ events = << >>
    /\ PendingBlocks = {0, 1, 2}
    /\ Len(pool) = 3

\* ------------------------------------------------------------------------
\* C11: the prefetch range of a center block is
\* [max(0, center - blocksBehind), min(totalBlocks - 1, center + blocksAhead)]
\* with totalBlocks = ceil(totalRows / blockSize).  When setVisibleRange
\* returns, every block of that range around the center of the visible
\* blocks is resident or loading, and no load was issued outside the visible
\* and prefetch ranges; after setPreloadPolicy(Aggressive),
\* setVisibleRange(5000, 5010) with block size 1000 issues loads for exactly
\* the blocks of [center - 2, center + 5], clamped to [0, totalBlocks - 1],
\* that are neither resident nor loading.
\* ------------------------------------------------------------------------
C11_PrefetchStep ==
    lastOp'.op = "setVisibleRange" =>
        LET startRow == Max(0, lastOp'.a)
            endRow == Min(rowCount(m_dataSource) - 1, lastOp'.b)
            visible == BlocksOfRows(startRow, endRow)
            center == ((startRow \div m_blockSize) + (endRow \div m_blockSize)) \div 2
            window == PrefetchWindow(center)
            issued == {pool'[i].blockIndex :
                         i \in {k \in 1 .. Len(pool') : pool'[k].id >= nextId}}
        IN  (m_dataSource # NullSource /\ startRow <= endRow) =>
               /\ calculatePreloadRange(Self, center) =
                      << Max(0, center - m_preloadBlocksBehind),
                         Min(CeilDiv(rowCount(m_dataSource), m_blockSize) - 1,
                             center + m_preloadBlocksAhead) >>
               /\ \A b \in window : b \in ResidentBlocks' \/ b \in RunningBlocks'
               /\ issued \subseteq visible \cup window
               /\ (/\ m_preloadPolicy = "Aggressive"
                   /\ m_preloadBlocksAhead = 5 /\ m_preloadBlocksBehind = 2
                   /\ m_blockSize = 1000
                   /\ lastOp'.a = 5000 /\ lastOp'.b = 5010) =>
                      issued = {b \in Max(0, 5 - 2) .. Min(TotalBlocks - 1, 5 + 5) :
                                  b \notin ResidentBlocks /\ ~isLoading(Self, b)}

C11_PrefetchRange == [][C11_PrefetchStep]_vars

\* setVisibleRange(5000, 5010) under the Aggressive policy on an empty store
\* of a source of more than 10000 rows started loads of the blocks 3 .. 10.
C11_Witness ==
    /\ lastOp.op = "setVisibleRange" /\ lastOp.a = 5000 /\ lastOp.b = 5010
    /\ m_preloadPolicy = "Aggressive"
    /\ m_preloadBlocksAhead = 5 /\ m_preloadBlocksBehind = 2
    /\ m_blockSize = 1000
    /\ ResidentBlocks = {}
    /\ RunningBlocks = 3 .. 10

\* ------------------------------------------------------------------------
\* C12: immediately after setPreloadPolicy(p) the counts in effect
\* (blocksAhead, blocksBehind) are (1, 0) for Conservative, (2, 1) for
\* Balanced and (5, 2) for Aggressive, whatever the state it is called in.
\* ------------------------------------------------------------------------
PolicyCounts(p) ==
    CASE p = "Conservative" -> << 1, 0 >>
      [] p = "Balanced"     -> << 2, 1 >>
      [] p = "Aggressive"   -> << 5, 2 >>

C12_PolicySetsCounts ==
    lastOp.op = "setPreloadPolicy" =>
        /\ m_preloadPolicy = lastOp.a
        /\ << m_preloadBlocksAhead, m_preloadBlocksBehind >> = PolicyCounts(lastOp.a)

\* ------------------------------------------------------------------------
\* C13: jumpToRow(row) for an in-range row sets a visible window that
\* contains row and whose span (end - start + 1) is the span of the current
\* visible window, or the default span of 50 rows when no visible range has
\* been set yet; for an out-of-range row it changes nothing.
\* ------------------------------------------------------------------------

\* The visible range is the constructor's: no call has set one.  (No input
\* of the specifications sets the range [0, 0].)
NoRangeSet == m_visibleStartRow = 0 /\ m_visibleEndRow = 0

C13_JumpStep ==
    lastOp'.op = "jumpToRow" =>
        IF InRange(lastOp'.a, 0)
        THEN LET span == IF NoRangeSet
                         THEN DefaultVisibleRows
                         ELSE m_visibleEndRow - m_visibleStartRow + 1
             IN  /\ m_visibleEndRow' - m_visibleStartRow' + 1 = span
                 /\ m_visibleStartRow' <= lastOp'.a
                 /\ lastOp'.a <= m_visibleEndRow'
        ELSE UNCHANGED << m_visibleStartRow, m_visibleEndRow, m_dataBlocks,
                          m_loadTasks, m_loadingStatus, pool >>

C13_JumpKeepsSpan == [][C13_JumpStep]_vars

\* ------------------------------------------------------------------------
\* C14: setBlockSize(n) with n <= 0 or n equal to the current block size
\* leaves the block size, the block store and the pending-load set
\* unchanged; with any other n it sets the block size to n and leaves the
\* block store and the pending-load set (m_loadTasks) empty.
\* ------------------------------------------------------------------------
C14_BlockSizeStep ==
    lastOp'.op = "setBlockSize" =>
        IF lastOp'.a <= 0 \/ lastOp'.a = m_blockSize
        THEN UNCHANGED << m_blockSize, m_dataBlocks, m_loadTasks >>
        ELSE /\ m_blockSize' = lastOp'.a
             /\ m_dataBlocks' = EmptyMap
             /\ m_loadTasks' = EmptyMap

C14_SetBlockSizeResets == [][C14_BlockSizeStep]_vars

\* setBlockSize(2000) was called while loads of the old block size were
\* registered, and left the store and the pending-load set empty.
C14_Witness ==
    /\ lastOp.op = "setBlockSize" /\ lastOp.a = 2000
    /\ m_blockSize = 2000
    /\ m_dataBlocks = EmptyMap /\ m_loadTasks = EmptyMap
    /\ \E i \in 1 .. Len(pool) : pool[i].count = 1000

\* ------------------------------------------------------------------------
\* C15: for every block size and number of rows, totalBlocks as computed is
\* ceil(totalRows / blockSize); the row spans loadBlock asks the source for,
\* for the block indices 0 .. totalBlocks - 1, are start = index * blockSize,
\* length = min(blockSize, totalRows - start), and cover [0, totalRows)
\* with no gap and no overlap; loadBlock issues no load for an index
\* >= totalBlocks.
\* ------------------------------------------------------------------------

\* totalBlocks of calculatePreloadRange: one more than the end of the range
\* of a center block beyond the last block.
ComputedTotalBlocks ==
    calculatePreloadRange(Self, rowCount(m_dataSource) + 1)[2] + 1

\* The rows loadBlock(b) asks for when block b is neither valid nor loading.
RequestedSpan(b) ==
    LET fresh == [Self EXCEPT !.blocks = EmptyMap, !.loadTasks = EmptyMap,
                              !.pool = << >>]
        issued == loadBlock(fresh, b).pool
    IN  IF issued = << >>
        THEN {}
        ELSE issued[1].startRow .. (issued[1].startRow + issued[1].count - 1)

C15_BlocksCoverRows ==
    m_dataSource # NullSource =>
        LET rows == rowCount(m_dataSource)
            total == CeilDiv(rows, m_blockSize)
        IN  /\ ComputedTotalBlocks = total
            /\ \A b \in 0 .. total - 1 :
                  RequestedSpan(b) =
                      (b * m_blockSize) ..
                          (b * m_blockSize + Min(m_blockSize, rows - b * m_blockSize) - 1)
            /\ UNION {RequestedSpan(b) : b \in 0 .. total - 1} = 0 .. rows - 1
            /\ \A b, c \in 0 .. total - 1 :
                  b # c => RequestedSpan(b) \cap RequestedSpan(c) = {}
            /\ \A b \in total .. total + 2 : RequestedSpan(b) = {}
            /\ \A i \in 1 .. Len(pool) :
                  pool[i].startRow + pool[i].count <= rowCount(pool[i].issuedFor)

\* A load of the last, partial block of source D with block size 3 is
\* running: one row, starting at row 6.
C15_Witness ==
    /\ m_dataSource = "D" /\ m_blockSize = 3
    /\ \E i \in 1 .. Len(pool) :
          /\ pool[i].blockIndex = 2
          /\ pool[i].startRow = 6
          /\ pool[i].count = RowsD - 6

\* ------------------------------------------------------------------------
\* Vocabulary of the properties of the file reader
\* ------------------------------------------------------------------------

\* The lines of a file from the byte offset from on, each with the offset of
\* its first byte; lines are separated by newlines.
RECURSIVE LinesFrom(_, _)
LinesFrom(file, from) ==
    IF from >= Len(file)
    THEN << >>
    ELSE LET end == CHOOSE e \in from .. Len(file) :
                      /\ e = Len(file) \/ file[e + 1] = "\n"
                      /\ \A k \in from .. e - 1 : file[k + 1] # "\n"
         IN  << [start |-> from, text |-> SubSeq(file, from + 1, end)] >>
                 \o LinesFrom(file, end + 1)

\* The logical rows of the reader's file: the non-blank lines after the
\* header line (all non-blank lines without a header), in order.
DataLines(r) ==
    LET all == LinesFrom(r.file, 0)
        body == IF r.m_hasHeader /\ all # << >> THEN Tail(all) ELSE all
    IN  SelectSeq(body, LAMBDA l : l.text # << >>)

\* The fields of logical row i (from 0): those of the line, padded or cut to
\* the number of columns.
ExpectedRow(r, i) == fitColumns(r, parseLine(r, DataLines(r)[i + 1].text))

Fields(row) == [i \in 1 .. Len(row) |-> row[i].text]

\* ------------------------------------------------------------------------
\* C16: loadData(start, count) returns, in order, the parsed fields of the
\* logical rows start, start + 1, ..., logical row i being the i-th
\* non-blank line after the header; for the file with header
\* "id,name,score" and rows "1,Alice,9.5", "2,Bob,7.25", loadData(0, 2)
\* returns the fields of the first row, then those of the second, and
\* headerData() returns ["id", "name", "score"].
\* ------------------------------------------------------------------------
C16_RoundTrip ==
    (csvOp.op = "loadData" /\ csv.m_isValid) =>
        /\ \A k \in 1 .. Len(csvOp.rows) :
              /\ csvOp.a + k <= Len(DataLines(csv))
              /\ csvOp.rows[k] = ExpectedRow(csv, csvOp.a + k - 1)
        /\ (csv.file = ScoreFile /\ csv.m_hasHeader /\ csvOp.a = 0 /\ csvOp.b = 2) =>
              /\ Len(csvOp.rows) = 2
              /\ Fields(csvOp.rows[1]) =
                    << << "1" >>, << "A", "l", "i", "c", "e" >>, << "9", ".", "5" >> >>
              /\ Fields(csvOp.rows[2]) =
                    << << "2" >>, << "B", "o", "b" >>, << "7", ".", "2", "5" >> >>
              /\ headerData(csv) =
                    << << "i", "d" >>, << "n", "a", "m", "e" >>, << "s", "c", "o", "r", "e" >> >>

\* ------------------------------------------------------------------------
\* C17: rowCount() of a valid reader is the number of non-empty lines after
\* the header line (of all non-empty lines without a header), and it agrees
\* with the offset index: for every i < rowCount() the index yields an
\* offset for logical row i, and it is the start of the i-th non-blank line.
\* ------------------------------------------------------------------------
C17_RowCountAndIndex ==
    (csvOp.op = "rowCount" /\ csv.m_isValid) =>
        /\ csvOp.n = Len(DataLines(csv))
        /\ \A i \in 0 .. csvOp.n - 1 :
              LET actualRowIndex == IF csv.m_hasHeader THEN i + 1 ELSE i
                  e == ensureRowOffsetCalculated(csv, actualRowIndex)
              IN  /\ e.ret
                  /\ e.r.m_rowOffsets[actualRowIndex + 1] = DataLines(csv)[i + 1].start

FirstFields(parsed, n) ==
    [i \in 1 .. n |-> IF i <= Len(parsed) THEN parsed[i] ELSE NullVariant]

\* The rows the lines of the reader's file can give.
RowsOfLines(r) ==
    {FirstFields(parseLine(r, l.text), r.m_columnCount) :
        l \in {LinesFrom(r.file, 0)[i] : i \in 1 .. Len(LinesFrom(r.file, 0))}}

C19_ExactlyColumnCount ==
    (csvOp.op = "loadData" /\ csv.m_isValid) =>
        /\ \A k \in 1 .. Len(csvOp.rows) :
              /\ Len(csvOp.rows[k]) = csvColumnCount(csv)
              /\ csvOp.rows[k] \in RowsOfLines(csv)
        /\ \A i \in DOMAIN csv.m_rowCache :
              Len(csv.m_rowCache[i]) = csvColumnCount(csv)

\* loadData returned a row read from a line with more fields than columns.
C19_Witness ==
    /\ csvOp.op = "loadData" /\ csv.m_isValid
    /\ \E k \in 1 .. Len(csvOp.rows) :
          \E i \in 1 .. Len(LinesFrom(csv.file, 0)) :
             LET parsed == parseLine(csv, LinesFrom(csv.file, 0)[i].text)
             IN  /\ Len(parsed) > csv.m_columnCount
                 /\ csvOp.rows[k] = SubSeq(parsed, 1, csv.m_columnCount)
                 /\ i = IF csv.m_hasHeader THEN 2 ELSE 1

\* ------------------------------------------------------------------------
\* C20: the row cache never holds more than maxCacheSize rows, maxCacheSize
\* being the bound given to the constructor.
\* ------------------------------------------------------------------------
C20_CacheBounded ==
    csv.constructed =>
        Cardinality(DOMAIN csv.m_rowCache) <= csv.maxCacheSizeArg

\* ------------------------------------------------------------------------
\* C21: the row cache is a strict LRU of capacity maxCacheSize: after a
\* loadData call the cached rows are exactly the maxCacheSize most recently
\* used rows, in order of use, the rows the call returned being used in
\* row order after every row used before.
\* ------------------------------------------------------------------------
LastK(seq, k) ==
    IF Len(seq) <= k THEN seq ELSE SubSeq(seq, Len(seq) - k + 1, Len(seq))

UsedAfter(order, first, n) ==
    SelectSeq(order, LAMBDA x : x \notin first .. first + n - 1)
        \o [i \in 1 .. n |-> first + i - 1]

C21_LruStep ==
    (csvOp'.op = "loadData" /\ csv.constructed) =>
        LET expected == LastK(UsedAfter(csv.m_cacheOrder, csvOp'.a, csvOp'.n),
                              csv.maxCacheSizeArg)
        IN  /\ csv'.m_cacheOrder = expected
            /\ DOMAIN csv'.m_rowCache = {expected[i] : i \in 1 .. Len(expected)}

C21_StrictLru == [][C21_LruStep]_vars

\* ------------------------------------------------------------------------
\* C22: a reader whose file could not be opened, is zero-length or has no
\* newline in its header window is invalid and has a non-empty error
\* string; its rowCount() is 0 and its loadData is empty for every argument.
\* ------------------------------------------------------------------------
NoNewline(file) == \A i \in 1 .. Len(file) : file[i] # "\n"

InitFails(r) == ~r.exists \/ Len(r.file) = 0 \/ NoNewline(r.file)

C22_InitFailureRecoverable ==
    (csv.constructed /\ InitFails(csv)) =>
        /\ ~isValid(csv)
        /\ errorString(csv) # ""
        /\ csvRowCount(csv).ret = 0
        /\ \A startRow \in -2 .. 3, count \in -1 .. 4 :
              csvLoadData(csv, startRow, count).data = << >>
        /\ csvOp.op = "rowCount" => csvOp.n = 0
        /\ csvOp.op = "loadData" => csvOp.rows = << >>

\* loadData(0, 2) was called on a reader of a non-empty file without newline.
C22_Witness ==
    /\ csv.constructed /\ csv.exists
    /\ Len(csv.file) > 0 /\ NoNewline(csv.file)
    /\ csvOp.op = "loadData" /\ csvOp.a = 0 /\ csvOp.b = 2
    /\ csvOp.rows = << >>
    /\ ~isValid(csv)

\* ------------------------------------------------------------------------
\* C23: while the data source is null the model has no rows and no columns,
\* data() returns an empty value, and no call or load completion changes
\* the block store, the pending loads, the visible range or the status;
\* no operation fails.
\* ------------------------------------------------------------------------
C23_NullQuietStep ==
    (m_dataSource = NullSource /\ m_dataSource' = NullSource) =>
        /\ m_dataBlocks' = m_dataBlocks
        /\ m_loadTasks' = m_loadTasks
        /\ pool' = pool
        /\ m_visibleStartRow' = m_visibleStartRow
        /\ m_visibleEndRow' = m_visibleEndRow
        /\ m_loadingStatus' = m_loadingStatus
        /\ lastOp'.op = "data" => lastOp'.ret = EmptyValue

C23_NullStep ==
    /\ C23_NullQuietStep
    /\ (m_dataSource = NullSource /\ m_dataSource' = NullSource) => ~crashed'

C23_NullSourceSilent == [][C23_NullStep]_vars

\* ------------------------------------------------------------------------
\* C24: data(row, col) with row < 0, row >= rowCount, col < 0 or
\* col >= columnCount returns an empty value, starts no load and leaves the
\* block store, the pending loads and the loading status unchanged.
\* ------------------------------------------------------------------------
OutOfRange(row, col) ==
    \/ row < 0 \/ row >= rowCount(m_dataSource)
    \/ col < 0 \/ col >= columnCount(m_dataSource)

C24_OutOfRangeStep ==
    (lastOp'.op = "data" /\ calls' = calls + 1
        /\ OutOfRange(lastOp'.a, lastOp'.b)) =>
        /\ lastOp'.ret = EmptyValue
        /\ m_dataBlocks' = m_dataBlocks
        /\ m_loadTasks' = m_loadTasks
        /\ pool' = pool /\ events' = events /\ nextId' = nextId
        /\ m_loadingStatus' = m_loadingStatus
        /\ statusSignal' = statusSignal

C24_OutOfRangeNoEffect == [][C24_OutOfRangeStep]_vars

\* data(9, 0) and data(0, 3) on source D (7 rows, 1 column) with a resident
\* block: the cell is out of range and the value returned is empty.
C24_Witness ==
    /\ lastOp.op = "data"
    /\ << lastOp.a, lastOp.b >> \in {<< 9, 0 >>, << 0, 3 >>}
    /\ m_dataSource = "D"
    /\ ResidentBlocks # {}
    /\ lastOp.ret = EmptyValue

\* ------------------------------------------------------------------------
\* C25: the row-offset index is strictly increasing:
\* offsets[i] < offsets[i + 1] for every pair of computed offsets.
\* ------------------------------------------------------------------------
C25_OffsetsIncreasing ==
    csv.constructed =>
        \A i \in 1 .. Len(csv.m_rowOffsets) - 1 :
            csv.m_rowOffsets[i] < csv.m_rowOffsets[i + 1]

\* ------------------------------------------------------------------------
\* C26: ensureRowOffsetCalculated(i) called a second time, for any row
\* index i, leaves the offset index as the first call left it and returns
\* what the first call returned.
\* ------------------------------------------------------------------------
C26_EnsureTwiceStep ==
    (/\ csvOp.op = "ensureRowOffsetCalculated"
     /\ csvOp'.op = "ensureRowOffsetCalculated"
     /\ calls' = calls + 1
     /\ csvOp'.a = csvOp.a) =>
        /\ csv'.m_rowOffsets = csv.m_rowOffsets
        /\ csvOp'.n = csvOp.n

C27_CompletionStep ==
    (events # << >> /\ events' = Tail(events)) =>
        LET e == Head(events)
        IN  \A b \in DOMAIN m_loadTasks :
               IF m_loadTasks[b] = e.id
               THEN lastOp'.op = "onBlockLoaded" => b \notin DOMAIN m_loadTasks'
               ELSE b \in DOMAIN m_loadTasks' /\ m_loadTasks'[b] = m_loadTasks[b]

C27_OtherStep ==
    (/\ events = << >> \/ events' # Tail(events)
     /\ ~(calls' = calls + 1 /\ lastOp'.op \in {"setDataSource", "setBlockSize"}))
    => DOMAIN m_loadTasks \subseteq DOMAIN m_loadTasks'

C27_EntryStep == C27_CompletionStep /\ C27_OtherStep

C27_EntryRemovedOnOwnMerge == [][C27_EntryStep]_vars

\* ------------------------------------------------------------------------
\* C28: the cleanup run by setVisibleRange changes nothing while the store
\* holds 10 blocks or fewer; otherwise the store after it is the blocks of
\* the prefetch window that were in the store plus the 10 most recently
\* accessed blocks outside the window, and so holds at most
\* (window size + 10) blocks.
\* ------------------------------------------------------------------------
C28_CleanupStep ==
    LET startRow == Max(0, lastOp'.a)
        endRow == Min(rowCount(m_dataSource) - 1, lastOp'.b)
        visible == BlocksOfRows(startRow, endRow)
        center == ((startRow \div m_blockSize) + (endRow \div m_blockSize)) \div 2
        window == PrefetchWindow(center)
        store == DOMAIN m_dataBlocks
        after == DOMAIN m_dataBlocks'
        outside == store \ window
        keptOutside == after \ window
        \* the access time of a block when the cleanup runs: the visible
        \* resident blocks have just been accessed
        accessed(b) == IF b \in visible /\ m_dataBlocks[b].isValid
                       THEN now
                       ELSE m_dataBlocks[b].lastAccessTime
    IN  (/\ lastOp'.op = "setVisibleRange" /\ calls' = calls + 1
         /\ m_dataSource # NullSource /\ startRow <= endRow) =>
            IF Cardinality(store) <= 10
            THEN after = store
            ELSE /\ after \subseteq store
                 /\ store \cap window \subseteq after
                 /\ Cardinality(keptOutside) = Min(10, Cardinality(outside))
                 /\ \A k \in keptOutside, o \in outside \ keptOutside :
                       accessed(k) >= accessed(o)
                 /\ Cardinality(after) <= Cardinality(window) + 10

C28_EvictionPolicy == [][C28_CleanupStep]_vars

\* A cleanup removed a block and kept 10 blocks outside the prefetch window,
\* not all of them accessed at the same time.
C28_Witness ==
    /\ lastOp.op = "setVisibleRange"
    /\ lastOp.evicted # {}
    /\ LET keptOutside == (DOMAIN m_dataBlocks) \ PrefetchWindow(CenterBlock)
       IN  /\ Cardinality(keptOutside) = 10
           /\ \E x, y \in keptOutside :
                 m_dataBlocks[x].lastAccessTime # m_dataBlocks[y].lastAccessTime

\* ------------------------------------------------------------------------
\* C29: after setScrollSpeed(v) with |v| above 5000 the counts are
\* (max(1, A / 2), max(0, B / 2)), (A, B) being the pair of the current
\* policy, whatever calls came before.
\* ------------------------------------------------------------------------
Abs(v) == IF v < 0 THEN -v ELSE v

C29_HalvedFromPolicy ==
    (lastOp.op = "setScrollSpeed" /\ Abs(lastOp.a) > 5000) =>
        LET pair == PolicyCounts(m_preloadPolicy)
        IN  /\ m_preloadBlocksAhead = Max(1, pair[1] \div 2)
            /\ m_preloadBlocksBehind = Max(0, pair[2] \div 2)

\* ------------------------------------------------------------------------
\* C30: after setScrollSpeed(v) with a speed below 500, the zero speed
\* reported when scrolling has stopped included, the counts are the pair of
\* the current policy again.
\* ------------------------------------------------------------------------
C30_RestoredWhenSlow ==
    (lastOp.op = "setScrollSpeed" /\ Abs(lastOp.a) < 500) =>
        << m_preloadBlocksAhead, m_preloadBlocksBehind >>
            = PolicyCounts(m_preloadPolicy)

\* ------------------------------------------------------------------------
\* C31: when setPreloadPolicy(p) returns while a visible range is set, a
\* range of one row included, every block of the prefetch window of the
\* new counts around the center block of the range is resident or has a
\* load in flight.
\* ------------------------------------------------------------------------
C31_PolicyStep ==
    (/\ lastOp'.op = "setPreloadPolicy" /\ calls' = calls + 1
     /\ m_dataSource # NullSource
     /\ m_visibleStartRow # 0 \/ m_visibleEndRow # 0) =>
        LET pair == PolicyCounts(lastOp'.a)
            window == Max(0, CenterBlock - pair[2]) ..
                          Min(TotalBlocks - 1, CenterBlock + pair[1])
        IN  \A b \in window : b \in ResidentBlocks' \/ b \in PendingBlocks'

C31_PolicyPrefetches == [][C31_PolicyStep]_vars

\* ------------------------------------------------------------------------
\* C32: every block of the store starts at blockIndex * blockSize and its
\* count attribute is at most min(blockSize, totalRows - startRow); data()
\* returns a cell of a block only if the block is valid.
\* ------------------------------------------------------------------------
C32_BlockAttributes ==
    /\ \A b \in DOMAIN m_dataBlocks :
          /\ m_dataBlocks[b].startRow = b * m_blockSize
          /\ m_dataBlocks[b].count
                <= Min(m_blockSize, rowCount(m_dataSource) - b * m_blockSize)
    /\ (lastOp.op = "data" /\ lastOp.ret.kind = "cell") =>
          LET b == lastOp.a \div m_blockSize
          IN  b \in DOMAIN m_dataBlocks /\ m_dataBlocks[b].isValid

\* ------------------------------------------------------------------------
\* C33: the dataChanged signal of a merge covers the rows
\* [blockIndex * blockSize, blockIndex * blockSize + n - 1], n being the
\* number of rows merged, and its first row is not after its last row.
\* ------------------------------------------------------------------------
C33_NotifiedSpan ==
    lastOp.op = "onBlockLoaded" =>
        LET b == lastOp.a
            n == m_dataBlocks[b].data.n
        IN  /\ lastOp.first = b * m_blockSize
            /\ lastOp.last = b * m_blockSize + n - 1
            /\ lastOp.first <= lastOp.last

\* ------------------------------------------------------------------------
\* C34: parseLine splits a line by the simplified grammar: a character
\* after a backslash is literal and the backslash is dropped, a double
\* quote toggles the in-quotes flag and is dropped, the delimiter separates
\* fields outside quotes only, and every field is trimmed; the number of
\* fields is one more than the number of delimiters that are neither
\* escaped nor inside quotes.
\* ------------------------------------------------------------------------

\* Character i of the line follows a backslash that is itself not escaped.
RECURSIVE Escaped(_, _)
Escaped(line, i) == i > 1 /\ line[i - 1] = "\\" /\ ~Escaped(line, i - 1)

\* Character i is a double quote that toggles the flag.
Toggle(line, i) == line[i] = "\"" /\ ~Escaped(line, i)

\* Character i lies inside quotes.
Quoted(line, i) == Cardinality({j \in 1 .. i - 1 : Toggle(line, j)}) % 2 = 1

\* Character i separates two fields.
Separates(line, i) == line[i] = "," /\ ~Escaped(line, i) /\ ~Quoted(line, i)

\* Character i is kept in its field.
Kept(line, i) ==
    \/ Escaped(line, i)
    \/ line[i] \notin {"\\", "\""} /\ ~Separates(line, i)

\* The characters kept among those at the positions from .. to.
RECURSIVE KeptText(_, _, _)
KeptText(line, from, to) ==
    IF from > to THEN << >>
    ELSE (IF Kept(line, from) THEN << line[from] >> ELSE << >>)
             \o KeptText(line, from + 1, to)

\* A text without its leading and trailing blanks.
RECURSIVE Stripped(_)
Stripped(text) ==
    IF text = << >> THEN text
    ELSE IF text[1] = " " THEN Stripped(Tail(text))
    ELSE IF text[Len(text)] = " " THEN Stripped(SubSeq(text, 1, Len(text) - 1))
    ELSE text

\* The fields of the part of the line that starts at position from.
RECURSIVE FieldsFrom(_, _)
FieldsFrom(line, from) ==
    LET seps == {i \in from .. Len(line) : Separates(line, i)}
        next == CHOOSE i \in seps : \A j \in seps : i <= j
    IN  IF seps = {}
        THEN << Stripped(KeptText(line, from, Len(line))) >>
        ELSE << Stripped(KeptText(line, from, next - 1)) >>
                 \o FieldsFrom(line, next + 1)

C34_SimplifiedGrammar ==
    csvOp.op = "parseLine" =>
        LET line == csvOp.a
            fields == csvOp.rows[1]
            expected == FieldsFrom(line, 1)
        IN  /\ Len(fields) =
                  1 + Cardinality({i \in 1 .. Len(line) : Separates(line, i)})
            /\ Len(fields) = Len(expected)
            /\ \A k \in 1 .. Len(fields) :
                  ~fields[k].null /\ fields[k].text = expected[k]
            /\ (\A i \in 1 .. Len(line) : line[i] \notin {"\\", "\""}) =>
                  Len(fields) =
                      1 + Cardinality({i \in 1 .. Len(line) : line[i] = ","})

\* A quoted delimiter, a delimiter and an escaped delimiter: the line
\* splits at the second of them only.
C34_Witness ==
    /\ csvOp.op = "parseLine"
    /\ csvOp.a = << "\"", ",", "\"", ",", "\\", "," >>
    /\ csvOp.n = 2
    /\ csvOp.rows[1][1].text = << "," >>
    /\ csvOp.rows[1][2].text = << "," >>

\* C35: every updateVisibleData of a view that has a model calls
\* setVisibleRange exactly when the buffered, clamped span differs from the
\* stored one, and every span the viewport computed, the first one
\* included, has been passed to the model: after the update the span passed
\* last is the span computed.
C35_UpdateStep == lastOp'.op = "updateVisibleData" /\ view.m_virtualModel

C35_SpanForwarded ==
    [][ C35_UpdateStep =>
          /\ (view'.forwarded # view.forwarded)
                 => view'.span # << view.m_visibleStartRow, view.m_visibleEndRow >>
          /\ view'.forwarded = view'.span ]_vars

\* C36: a load task reads from the data source that was active when the
\* load was issued: the rows of every finished task come from the source its
\* load was issued for, and no task dereferenced a null source.
C36_ReadsIssuedSource ==
    /\ ~crashed
    /\ \A i \in 1 .. Len(events) : events[i].result.src = events[i].issuedFor

\* C37: a data() call made by an observer inside the rows-changed or the
\* loading-status-changed notification of a merge completes: the GUI
\* thread never waits for m_dataMutex while it holds it.
C37_ObserverCompletes == m_dataMutex = "unlocked"

\* C38: the value carried by the most recent loadingStatusChanged signal
\* equals loadingStatus() in every state, and a signal is emitted only by a
\* step that changes the status.
C38_SignalStep ==
    /\ statusSignal' # "none" => statusSignal' = m_loadingStatus'
    /\ statusSignal' # statusSignal => m_loadingStatus' # m_loadingStatus

C38_SignalMatchesStatus == [][C38_SignalStep]_vars

\* C39: every block marked valid holds exactly min(blockSize, totalRows -
\* startRow) rows with columnCount cells each, so that data() finds every
\* in-range cell of a valid block in it.
C39_ValidBlockComplete ==
    m_dataSource # NullSource =>
        \A b \in DOMAIN m_dataBlocks :
            m_dataBlocks[b].isValid =>
                /\ m_dataBlocks[b].data.n =
                       Min(m_blockSize, rowCount(m_dataSource) - b * m_blockSize)
                /\ m_dataBlocks[b].data.n > 0
                       => columnCount(m_dataBlocks[b].data.src)
                             = columnCount(m_dataSource)

\* Offset o is the start of a line of the file.
LineStart(file, o) == o = 0 \/ (o <= Len(file) /\ file[o] = "\n")

\* The line that starts at offset o ends after len bytes.
LineEnd(file, o, len) == o + len = Len(file) \/ file[o + len + 1] = "\n"

\* The offsets the non-empty lines after the header line start at.
DataLineStarts(file) ==
    LET headerEnd == CHOOSE j \in 1 .. Len(file) :
                        file[j] = "\n" /\ \A k \in 1 .. j - 1 : file[k] # "\n"
    IN  {o \in headerEnd .. Len(file) - 1 :
            LineStart(file, o) /\ file[o + 1] # "\n"}

\* C40: the row count, the offset index and the text of a row do not depend
\* on the size of the mapping window: every indexed offset is the start of
\* a line, the row count is the number of non-empty lines after the header,
\* and a row is returned whole, from its start to the end of its line.
C40_WindowIndependent ==
    (csv.constructed /\ csv.isOpen /\ csv.m_hasHeader) =>
        /\ \A k \in 1 .. Len(csv.m_rowOffsets) :
              LineStart(csv.file, csv.m_rowOffsets[k])
        /\ csvOp.op = "rowCount"
              => csvOp.n = Cardinality(DataLineStarts(csv.file))
        /\ (csvOp.op = "getLineFromMappedData" /\ csvOp.n = 1)
              => LET o == csv.m_rowOffsets[csvOp.a + 2]
                 IN  /\ LineStart(csv.file, o)
                     /\ LineEnd(csv.file, o, Len(csvOp.rows[1]))

====
